---- MODULE Spec2Model ----
(***************************************************************************)
(* Multi-engine table inspector of the workshop backend: the two Backend   *)
(* variants of db_factory.rs, the command functions of                     *)
(* commands/db_tool_commands.rs, and the connection map of state.rs.       *)
(*                                                                         *)
(* A Rust String is a sequence of one-character strings, so that trimming, *)
(* upper-casing, substring search and quoting are computed as the code     *)
(* computes them.  Option<T> is a record [some, v].                        *)
(***************************************************************************)
EXTENDS Integers, Sequences, FiniteSets, TLC

VARIABLES
    profile,      \* build profile of the binary: "debug" | "release"
    table,        \* logical content of the inspected table `t`
    res,          \* what the last inspector call issued and returned
    stored,       \* per project, the credentials the resolver yields at present
    connections,  \* DbConnectionManager.connections: per project, the cached Backend
    lock,         \* holder of the Mutex around connections (0: free)
    workers,      \* per command thread, where its inspector operation stands
    built,        \* per project, the Backends constructed since its last invalidation
    budget,       \* operations, saves and invalidations so far
    projects,     \* the projects database: its rows, and the ids generated so far
    disk,         \* per project location: the .workshop directory and its project.json
    channel,      \* the project-event channel of lib.rs, with what went through it
    setup,        \* the background thread of lib.rs, inside setup_project or waiting
    saving        \* the command thread of save_db_credentials

cache_vars == <<stored, connections, lock, workers, built, budget>>

project_vars == <<projects, disk, channel, setup, saving>>

vars == <<profile, table, res, stored, connections, lock, workers, built, budget,
          projects, disk, channel, setup, saving>>

(***************************************************************************)
(* Bounds of the model.                                                    *)
(***************************************************************************)
MaxRows == 4
MaxPage == 3
MaxPerPage == 2
MaxOps == 3
MaxSaves == 1
MaxInvalidations == 1
MaxProjects == 2

(***************************************************************************)
(* Text.                                                                   *)
(***************************************************************************)
LowerChars == <<"a","b","c","d","e","f","g","h","i","j","k","l","m",
                "n","o","p","q","r","s","t","u","v","w","x","y","z">>
UpperChars == <<"A","B","C","D","E","F","G","H","I","J","K","L","M",
                "N","O","P","Q","R","S","T","U","V","W","X","Y","Z">>
DigitChars == <<"0","1","2","3","4","5","6","7","8","9">>
Whitespace == {" ", "\t", "\n", "\r"}

Range(s) == {s[i] : i \in DOMAIN s}

None == [some |-> FALSE, v |-> <<>>]
Some(x) == [some |-> TRUE, v |-> x]

char_to_uppercase(c) ==
    IF \E i \in DOMAIN LowerChars : LowerChars[i] = c
    THEN UpperChars[CHOOSE i \in DOMAIN LowerChars : LowerChars[i] = c]
    ELSE c

to_uppercase(s) == [i \in DOMAIN s |-> char_to_uppercase(s[i])]

is_ascii_alphanumeric(c) ==
    c \in Range(LowerChars) \cup Range(UpperChars) \cup Range(DigitChars)

\* str::trim().is_empty()
trim_is_empty(s) == \A i \in DOMAIN s : s[i] \in Whitespace

trim(s) ==
    IF trim_is_empty(s) THEN <<>>
    ELSE LET a == CHOOSE i \in DOMAIN s :
                      s[i] \notin Whitespace /\ \A j \in 1..(i-1) : s[j] \in Whitespace
             b == CHOOSE i \in DOMAIN s :
                      s[i] \notin Whitespace /\ \A j \in (i+1)..Len(s) : s[j] \in Whitespace
         IN SubSeq(s, a, b)

MatchAt(s, sub, i) ==
    /\ i >= 1
    /\ i + Len(sub) - 1 <= Len(s)
    /\ \A k \in 1..Len(sub) : s[i + k - 1] = sub[k]

\* str::find / str::rfind: the 1-based place of the first / last occurrence, 0 for None
find(s, sub) ==
    IF \E i \in 1..Len(s) : MatchAt(s, sub, i)
    THEN CHOOSE i \in 1..Len(s) : MatchAt(s, sub, i) /\ \A j \in 1..(i-1) : ~MatchAt(s, sub, j)
    ELSE 0

rfind(s, sub) ==
    IF \E i \in 1..Len(s) : MatchAt(s, sub, i)
    THEN CHOOSE i \in 1..Len(s) : MatchAt(s, sub, i) /\ \A j \in (i+1)..Len(s) : ~MatchAt(s, sub, j)
    ELSE 0

RECURSIVE replace(_, _, _)
\* str::replace(from, to) for a one-character pattern
replace(s, from, to) ==
    IF s = <<>> THEN <<>>
    ELSE (IF Head(s) = from THEN to ELSE <<Head(s)>>) \o replace(Tail(s), from, to)

RECURSIVE nat_to_string(_)
nat_to_string(n) ==
    IF n < 10 THEN <<DigitChars[n + 1]>>
    ELSE nat_to_string(n \div 10) \o <<DigitChars[(n % 10) + 1]>>

\* i64::to_string / u32::to_string
to_string(n) == IF n < 0 THEN <<"-">> \o nat_to_string(-n) ELSE nat_to_string(n)

RECURSIVE zero_pad(_, _)
\* format!("{:0w$}", n)
zero_pad(s, w) == IF Len(s) >= w THEN s ELSE zero_pad(<<"0">> \o s, w)

fmt02(n) == zero_pad(nat_to_string(n), 2)
fmt04(n) == zero_pad(nat_to_string(n), 4)

IsDigits(s) == s # <<>> /\ \A i \in DOMAIN s : s[i] \in Range(DigitChars)

DigitValue(c) == (CHOOSE i \in DOMAIN DigitChars : DigitChars[i] = c) - 1

RECURSIVE parse_nat(_)
parse_nat(s) ==
    IF s = <<>> THEN 0
    ELSE parse_nat(SubSeq(s, 1, Len(s) - 1)) * 10 + DigitValue(s[Len(s)])

(***************************************************************************)
(* Literals.                                                               *)
(***************************************************************************)
T_NULL == <<"N","U","L","L">>
T_LIMIT == <<"L","I","M","I","T">>
T_DESC == <<"D","E","S","C">>
T_ASC == <<"A","S","C">>
T_UNKNOWN == <<"U","N","K","N","O","W","N">>
T_SELECT_FROM == <<"S","E","L","E","C","T"," ","*"," ","F","R","O","M"," ">>
T_WHERE == <<" ","W","H","E","R","E"," ">>
T_ORDER_BY == <<" ","O","R","D","E","R"," ","B","Y"," ">>
T_LIMIT_KW == <<" ","L","I","M","I","T"," ">>
T_OFFSET_KW == <<" ","O","F","F","S","E","T"," ">>
T_SELECT == <<"S","E","L","E","C","T"," ">>
T_FROM == <<" ","F","R","O","M"," ">>
T_COMMA == <<",", " ">>
T_COUNT_FROM == <<"S","E","L","E","C","T"," ","C","O","U","N","T","(","*",")"," ","F","R","O","M"," ">>
T_COUNT_AS_FROM == <<"S","E","L","E","C","T"," ","C","O","U","N","T","(","*",")"," ",
                     "a","s"," ","c","o","u","n","t"," ","F","R","O","M"," ">>
T_t == <<"t">>
T_id == <<"i","d">>
T_v == <<"v">>
T_x == <<"x">>

(***************************************************************************)
(* Value Normalizer.  A native cell is [kind, n, s, t]: n an integer, s a  *)
(* byte/text payload, t the fields of a date or time value.                *)
(***************************************************************************)
Native(kind, n, s, t) == [kind |-> kind, n |-> n, s |-> s, t |-> t]

MySqlNULL == Native("NULL", 0, <<>>, <<>>)
MySqlBytes(s) == Native("Bytes", 0, s, <<>>)
MySqlInt(n) == Native("Int", n, <<>>, <<>>)
MySqlUInt(n) == Native("UInt", n, <<>>, <<>>)
\* a float is kept as its whole part n and the digits s of its fraction
MySqlFloat(n, s) == Native("Float", n, s, <<>>)
MySqlDouble(n, s) == Native("Double", n, s, <<>>)
MySqlDate(y, m, d, h, i, s) == Native("Date", 0, <<>>, <<y, m, d, h, i, s>>)
MySqlTime(neg, d, h, i, s) == Native("Time", IF neg THEN 1 ELSE 0, <<>>, <<d, h, i, s>>)

SqliteNull == Native("Null", 0, <<>>, <<>>)
SqliteInteger(n) == Native("Integer", n, <<>>, <<>>)
SqliteReal(n, s) == Native("Real", n, s, <<>>)
SqliteText(s) == Native("Text", 0, s, <<>>)
SqliteBlob(s) == Native("Blob", 0, s, <<>>)

\* f32/f64::to_string
float_to_string(n, s) == IF s = <<>> THEN to_string(n) ELSE to_string(n) \o <<".">> \o s

fmt_date(t) ==
    fmt04(t[1]) \o <<"-">> \o fmt02(t[2]) \o <<"-">> \o fmt02(t[3]) \o <<" ">>
        \o fmt02(t[4]) \o <<":">> \o fmt02(t[5]) \o <<":">> \o fmt02(t[6])

fmt_time(neg, t) ==
    (IF neg THEN <<"-">> ELSE <<>>) \o nat_to_string(t[1]) \o <<".">>
        \o fmt02(t[2]) \o <<":">> \o fmt02(t[3]) \o <<":">> \o fmt02(t[4])

MySqlBackend_convert_value(value) ==
    CASE value.kind = "NULL" -> None
      [] value.kind = "Bytes" -> Some(value.s)
      [] value.kind \in {"Int", "UInt"} -> Some(to_string(value.n))
      [] value.kind \in {"Float", "Double"} -> Some(float_to_string(value.n, value.s))
      [] value.kind = "Date" -> Some(fmt_date(value.t))
      [] value.kind = "Time" -> Some(fmt_time(value.n = 1, value.t))

SqliteBackend_convert_value(value) ==
    CASE value.kind = "Null" -> None
      [] value.kind = "Integer" -> Some(to_string(value.n))
      [] value.kind = "Real" -> Some(float_to_string(value.n, value.s))
      [] value.kind = "Text" -> Some(value.s)
      [] value.kind = "Blob" -> Some(value.s)

\* commands/db_tool_commands.rs: the cell type there is String, not Option<String>
convert_mysql_value(value) ==
    CASE value.kind = "NULL" -> T_NULL
      [] value.kind = "Bytes" -> value.s
      [] value.kind \in {"Int", "UInt"} -> to_string(value.n)
      [] value.kind \in {"Float", "Double"} -> float_to_string(value.n, value.s)
      [] value.kind = "Date" -> fmt_date(value.t)
      [] value.kind = "Time" -> fmt_time(value.n = 1, value.t)

(***************************************************************************)
(* Identifier Validator.                                                   *)
(***************************************************************************)
is_valid_ident(s) == \A i \in DOMAIN s : is_ascii_alphanumeric(s[i]) \/ s[i] = "_"

(***************************************************************************)
(* The engines.  Both hold the table `t` with the columns id and v; a row  *)
(* of the logical content is [id, v], v a logical value [kind, n, s] of    *)
(* kind "null", "text" or "int".  Each engine hands a cell out in its own  *)
(* native type.                                                            *)
(***************************************************************************)
Engines == {"mysql", "sqlite"}
TableColumns == <<T_id, T_v>>

LNull == [kind |-> "null", n |-> 0, s |-> <<>>]
LText(s) == [kind |-> "text", n |-> 0, s |-> s]
LInt(n) == [kind |-> "int", n |-> n, s |-> <<>>]

NativeOf(engine, lv) ==
    IF engine = "mysql"
    THEN CASE lv.kind = "null" -> MySqlNULL
           [] lv.kind = "text" -> MySqlBytes(lv.s)
           [] lv.kind = "int" -> MySqlBytes(to_string(lv.n))  \* text protocol
    ELSE CASE lv.kind = "null" -> SqliteNull
           [] lv.kind = "text" -> SqliteText(lv.s)
           [] lv.kind = "int" -> SqliteInteger(lv.n)

\* a row of the result in the order of the select list
NativeRow(engine, r, projection) ==
    [i \in DOMAIN projection |->
        IF projection[i] = T_id THEN NativeOf(engine, LInt(r.id)) ELSE NativeOf(engine, r.v)]

\* the backtick character (written out: the lexer pairs a backtick with a later prime)
Backtick == "BACKTICK"
DoubleQuote == "\""

QuoteChar(engine) == IF engine = "mysql" THEN Backtick ELSE DoubleQuote

Min(S) == CHOOSE m \in S : \A k \in S : m <= k
Max(S) == CHOOSE m \in S : \A k \in S : k <= m

\* a predicate of the engine's WHERE grammar: id <op> <number>
IdPredOK(p) ==
    /\ Len(p) >= 6
    /\ SubSeq(p, 1, 2) = T_id
    /\ p[3] = " "
    /\ p[4] \in {">", "=", "<"}
    /\ p[5] = " "
    /\ IsDigits(SubSeq(p, 6, Len(p)))

\* or: v = '<text>', a string literal without a quote inside
TextPredOK(p) ==
    /\ Len(p) >= 6
    /\ SubSeq(p, 1, 5) = <<"v", " ", "=", " ", "'">>
    /\ p[Len(p)] = "'"
    /\ \A i \in 6..(Len(p) - 1) : p[i] # "'"

PredOK(p) == IdPredOK(p) \/ TextPredOK(p)

Compare(op, a, b) ==
    CASE op = ">" -> a > b
      [] op = "=" -> a = b
      [] op = "<" -> a < b

PredHolds(p, r) ==
    IF p[1] = "v" THEN r.v = LText(SubSeq(p, 6, Len(p) - 1))
    ELSE Compare(p[4], r.id, parse_nat(SubSeq(p, 6, Len(p))))

\* the text of an ORDER BY item: <quote>id<quote> ASC|DESC
QuotedId(q) == <<q>> \o T_id \o <<q, " ">>

OrderOK(engine, o) ==
    o \in {QuotedId(QuoteChar(engine)) \o T_ASC, QuotedId(QuoteChar(engine)) \o T_DESC}

\* the place of the row that comes first in the order
FirstById(rows, desc) ==
    CHOOSE i \in DOMAIN rows :
        \A j \in DOMAIN rows :
            IF desc THEN rows[j].id <= rows[i].id ELSE rows[i].id <= rows[j].id

Without(rows, i) == [k \in 1..(Len(rows) - 1) |-> IF k < i THEN rows[k] ELSE rows[k + 1]]

RECURSIVE SortById(_, _)
SortFrom(rows, desc, i) == <<rows[i]>> \o SortById(Without(rows, i), desc)

SortById(rows, desc) ==
    IF rows = <<>> THEN <<>> ELSE SortFrom(rows, desc, FirstById(rows, desc))

\* the value of a number in a statement, capped where it exceeds every row count
StatementNat(digits) == IF Len(digits) > 9 THEN 999999999 ELSE parse_nat(digits)

Slice(rows, offset, limit) ==
    IF offset >= Len(rows) THEN <<>>
    ELSE SubSeq(rows, offset + 1,
                IF limit < Len(rows) - offset THEN offset + limit ELSE Len(rows))

EngineError == [ok |-> FALSE, columns |-> <<>>, rows |-> <<>>]

NextMark(body, marks, i) == Min({m \in marks : m > i} \cup {Len(body) + 1})

Clause(body, marks, i, kw) ==
    IF i = 0 THEN <<>> ELSE trim(SubSeq(body, i + Len(kw), NextMark(body, marks, i) - 1))

ClausesAt(ok, body, ub, iw, io, il, ix, marks) ==
    [ wellformed |->
          /\ ok
          /\ rfind(ub, T_WHERE) = iw /\ rfind(ub, T_ORDER_BY) = io
          /\ rfind(ub, T_LIMIT_KW) = il /\ rfind(ub, T_OFFSET_KW) = ix
          /\ (io > 0 => iw < io)
          /\ (il > 0 => iw < il /\ io < il)
          /\ (ix > 0 => il > 0 /\ il < ix),
      table |-> SubSeq(body, 1, NextMark(body, marks, 0) - 1),
      has_where |-> iw > 0,
      where |-> Clause(body, marks, iw, T_WHERE),
      has_order |-> io > 0,
      order |-> Clause(body, marks, io, T_ORDER_BY),
      has_limit |-> il > 0,
      limit |-> Clause(body, marks, il, T_LIMIT_KW),
      has_offset |-> ix > 0,
      offset |-> Clause(body, marks, ix, T_OFFSET_KW) ]

ClausesOfMarks(ok, body, ub, iw, io, il, ix) ==
    ClausesAt(ok, body, ub, iw, io, il, ix, {iw, io, il, ix} \ {0})

ClausesOfBody(ok, body, ub) ==
    ClausesOfMarks(ok, body, ub, find(ub, T_WHERE), find(ub, T_ORDER_BY),
                   find(ub, T_LIMIT_KW), find(ub, T_OFFSET_KW))

\* The clauses of `<prefix><table> [WHERE p] [ORDER BY o] [LIMIT n [OFFSET m]]`;
\* keywords are matched without regard to case, as both engines do.
SelectClauses(q, prefix) ==
    ClausesOfBody(MatchAt(q, prefix, 1), SubSeq(q, Len(prefix) + 1, Len(q)),
                  to_uppercase(SubSeq(q, Len(prefix) + 1, Len(q))))

ClausesOK(engine, c) ==
    /\ c.wellformed
    /\ c.table = T_t
    /\ (c.has_where => PredOK(c.where))
    /\ (c.has_order => OrderOK(engine, c.order))
    /\ (c.has_limit => IsDigits(c.limit))
    /\ (c.has_offset => IsDigits(c.offset))

\* the rows a predicate keeps
Kept(rows, has_where, where) ==
    LET Keep(r) == has_where => PredHolds(where, r) IN SelectSeq(rows, Keep)

Ordered(rows, has_order, order) ==
    IF has_order
    THEN SortById(rows, order[Len(order)] = "C" /\ order[Len(order) - 1] = "S")
    ELSE rows

Sliced(rows, c) ==
    IF c.has_limit
    THEN Slice(rows, IF c.has_offset THEN StatementNat(c.offset) ELSE 0, StatementNat(c.limit))
    ELSE rows

NativeRows(engine, rows, projection) ==
    [i \in DOMAIN rows |-> NativeRow(engine, rows[i], projection)]

\* the items of a select list, separated by a comma and a space
RECURSIVE SplitList(_)
SplitAt(s, i) ==
    IF i = 0 THEN <<s>> ELSE <<SubSeq(s, 1, i - 1)>> \o SplitList(SubSeq(s, i + 2, Len(s)))

SplitList(s) == SplitAt(s, find(s, T_COMMA))

\* the result columns of a select list: * stands for the columns of the table
Projection(list) == IF list = <<"*">> THEN TableColumns ELSE SplitList(list)

SelectListAt(q, i) ==
    IF MatchAt(q, T_SELECT, 1) /\ i > Len(T_SELECT) THEN SubSeq(q, Len(T_SELECT) + 1, i - 1)
    ELSE <<"*">>

\* the select list of `SELECT <list> FROM ...`
SelectList(q) == SelectListAt(q, find(q, T_FROM))

EngineSelectOf(engine, rows, c, projection) ==
    IF ~ClausesOK(engine, c) \/ \E i \in DOMAIN projection : projection[i] \notin Range(TableColumns)
    THEN EngineError
    ELSE [ ok |-> TRUE,
           columns |-> projection,
           rows |-> NativeRows(engine,
                        Sliced(Ordered(Kept(rows, c.has_where, c.where), c.has_order, c.order),
                               c),
                        projection) ]

EngineSelectList(engine, rows, q, list) ==
    EngineSelectOf(engine, rows, SelectClauses(q, T_SELECT \o list \o T_FROM), Projection(list))

\* What the engine answers to the text q of a select on the content rows; the
\* result may name a column more than once.
EngineSelect(engine, rows, q) == EngineSelectList(engine, rows, q, SelectList(q))

EngineCountOf(engine, rows, c) ==
    IF ~ClausesOK(engine, c) \/ c.has_order
    THEN [ok |-> FALSE, row |-> None]
    ELSE [ ok |-> TRUE,
           row |-> IF /\ c.has_limit
                      /\ \/ StatementNat(c.limit) = 0
                         \/ c.has_offset /\ StatementNat(c.offset) > 0
                   THEN None
                   ELSE Some(Len(Kept(rows, c.has_where, c.where))) ]

\* What the engine answers to a `SELECT COUNT(*) [as count] FROM ...`: one row with
\* the number of rows the predicate keeps, unless a LIMIT 0 or an OFFSET cuts it away.
EngineCount(engine, rows, q) ==
    EngineCountOf(engine, rows,
                  SelectClauses(q, IF MatchAt(q, T_COUNT_AS_FROM, 1)
                                   THEN T_COUNT_AS_FROM ELSE T_COUNT_FROM))

(***************************************************************************)
(* u32 arithmetic.  A u32 is kept as two 16-bit halves [hi, lo], its value *)
(* being hi * 2^16 + lo, so that every value up to 2^32 - 1 is held        *)
(* exactly.  An overflow panics in a build with overflow checks (the debug *)
(* profile) and wraps modulo 2^32 in a release build.                      *)
(***************************************************************************)
u32(n) == [hi |-> n \div 65536, lo |-> n % 65536]

\* the product of two 16-bit halves, exact, as [hi, lo]
mul16(x, y) ==
    LET x1 == x \div 256
        x0 == x % 256
        y1 == y \div 256
        y0 == y % 256
        t == (x1 * y0 + x0 * y1) * 256 + x0 * y0
    IN [hi |-> x1 * y1 + t \div 65536, lo |-> t % 65536]

u32_sub(a, b) ==
    LET borrow == IF a.lo < b.lo THEN 1 ELSE 0
        h == a.hi - b.hi - borrow
    IN [ v |-> [hi |-> (h + 65536) % 65536, lo |-> (a.lo - b.lo + 65536) % 65536],
         overflow |-> h < 0 ]

u32_add(a, b) ==
    LET l == a.lo + b.lo
        h == a.hi + b.hi + l \div 65536
    IN [v |-> [hi |-> h % 65536, lo |-> l % 65536], overflow |-> h >= 65536]

u32_mul(a, b) ==
    LET p0 == mul16(a.lo, b.lo)
        p1 == mul16(a.hi, b.lo)
        p2 == mul16(a.lo, b.hi)
        p3 == mul16(a.hi, b.hi)
        h == p0.hi + p1.lo + p2.lo
    IN [ v |-> [hi |-> h % 65536, lo |-> p0.lo],
         overflow |-> h >= 65536 \/ p1.hi > 0 \/ p2.hi > 0 \/ p3.hi > 0 \/ p3.lo > 0 ]

RECURSIVE u32_to_string(_)
u32_to_string(a) ==
    IF a.hi = 0 /\ a.lo < 10 THEN <<DigitChars[a.lo + 1]>>
    ELSE LET t == (a.hi % 10) * 65536 + a.lo
         IN u32_to_string([hi |-> a.hi \div 10, lo |-> t \div 10])
                \o <<DigitChars[(t % 10) + 1]>>

\* data.len() > limit as usize
len_exceeds(n, limit) == limit.hi < 32768 /\ n > limit.hi * 65536 + limit.lo

(***************************************************************************)
(* Query Builder and Backend::get_table_data.                              *)
(***************************************************************************)
\* db_factory.rs 113-123 / 406-417: (where_clause_for_select, has_limit_in_where)
where_clause_for_select(where_clause) ==
    IF where_clause.some /\ ~trim_is_empty(where_clause.v)
    THEN T_WHERE \o where_clause.v
    ELSE <<>>

has_limit_in_where(where_clause) ==
    /\ where_clause.some
    /\ ~trim_is_empty(where_clause.v)
    /\ rfind(to_uppercase(where_clause.v), T_LIMIT) # 0

\* db_factory.rs 131-135 / 425-429: DESC when the direction says so in any case, else ASC
\* the direction compared as it is given, without upper-casing
sort_dir_as_given(sort_direction) ==
    IF sort_direction.some /\ sort_direction.v = T_DESC THEN T_DESC ELSE T_ASC

\* db_factory.rs 131-134 / 424-427
sort_dir(sort_direction) ==
    IF sort_direction.some /\ to_uppercase(sort_direction.v) = T_DESC THEN T_DESC ELSE T_ASC

\* the column between quotes as it is given, without doubling
quoted_column_undoubled(q, column) == <<q>> \o column \o <<q>>

quoted_column(q, column) == <<q>> \o replace(column, q, <<q, q>>) \o <<q>>

\* db_factory.rs 128-141 / 422-433
order_by_clause(engine, sort_column, sort_direction) ==
    IF sort_column.some /\ ~trim_is_empty(sort_column.v)
    THEN T_ORDER_BY \o quoted_column(QuoteChar(engine), sort_column.v) \o <<" ">>
             \o sort_dir(sort_direction)
    ELSE <<>>

offset_of(d, limit) == [v |-> u32_mul(d.v, limit).v, overflow |-> d.overflow \/ u32_mul(d.v, limit).overflow]

\* db_factory.rs 125 / 419: let offset = (page - 1) * limit;
page_offset(page, limit) == offset_of(u32_sub(page, u32(1)), limit)

\* db_factory.rs 145-156 / 437-448
select_query(engine, table_name, page, per_page, where_clause, sort_column, sort_direction) ==
    IF has_limit_in_where(where_clause)
    THEN T_SELECT_FROM \o table_name \o where_clause_for_select(where_clause)
    ELSE T_SELECT_FROM \o table_name \o where_clause_for_select(where_clause)
             \o order_by_clause(engine, sort_column, sort_direction)
             \o T_LIMIT_KW \o u32_to_string(u32_add(per_page, u32(1)).v)
             \o T_OFFSET_KW \o u32_to_string(page_offset(page, per_page).v)

\* whether building the select overflows a u32
select_overflows(page, per_page, where_clause) ==
    \/ page_offset(page, per_page).overflow
    \/ ~has_limit_in_where(where_clause) /\ u32_add(per_page, u32(1)).overflow

\* pop_has_more with the boundary test off by one
pop_has_more_at_limit(data, limit) ==
    IF (len_exceeds(Len(data), limit) \/ u32(Len(data)) = limit) /\ data # <<>>
    THEN [rows |-> SubSeq(data, 1, Len(data) - 1), has_more |-> TRUE]
    ELSE [rows |-> data, has_more |-> FALSE]

\* db_factory.rs 187-191 / 491-495: (rows, has_more)
pop_has_more(data, limit) ==
    IF len_exceeds(Len(data), limit)
    THEN [rows |-> SubSeq(data, 1, Len(data) - 1), has_more |-> TRUE]
    ELSE [rows |-> data, has_more |-> FALSE]

ColumnDetail(name, data_type, is_nullable) ==
    [name |-> name, data_type |-> data_type, is_nullable |-> is_nullable, default_value |-> None]

\* The outcome of a call that returns a TableData: ok is false for Err, panicked
\* for a call that never returned; issued lists the statements sent to the engine.
TableDataErr(issued) ==
    [ ok |-> FALSE, panicked |-> FALSE, issued |-> issued, raw |-> <<>>, total |-> 0,
      has_more |-> FALSE, columns |-> <<>>, column_details |-> <<>>, rows |-> <<>> ]

TableDataPanic ==
    [ ok |-> FALSE, panicked |-> TRUE, issued |-> <<>>, raw |-> <<>>, total |-> 0,
      has_more |-> FALSE, columns |-> <<>>, column_details |-> <<>>, rows |-> <<>> ]

TableDataOk(issued, raw, total, has_more, columns, column_details, rows) ==
    [ ok |-> TRUE, panicked |-> FALSE, issued |-> issued, raw |-> raw, total |-> total,
      has_more |-> has_more, columns |-> columns, column_details |-> column_details,
      rows |-> rows ]

T_MYSQL_TYPE == <<"M","Y","S","Q","L","_","T","Y","P","E","_">>

\* mysql::Row::columns(): name, type and NOT NULL flag of the result's columns
MySqlColumnDetail(name) ==
    IF name = T_id THEN ColumnDetail(name, T_MYSQL_TYPE \o <<"L","O","N","G">>, FALSE)
    ELSE ColumnDetail(name, T_MYSQL_TYPE \o <<"V","A","R","_","S","T","R","I","N","G">>, TRUE)

\* db_factory.rs 162-170 / 210-218: the columns are read off the first row
first_row_columns(answer) == IF answer.rows # <<>> THEN answer.columns ELSE <<>>

\* HashMap::insert in the order of the columns: the cell of a name is the
\* last column of that name
LastIndex(columns, c) == Max({i \in DOMAIN columns : columns[i] = c})

MySqlRowsOf(answer, columns) ==
    [ columns |-> columns,
      column_details |-> [i \in DOMAIN columns |-> MySqlColumnDetail(columns[i])],
      data |-> [r \in DOMAIN answer.rows |->
                   [c \in Range(columns) |->
                       MySqlBackend_convert_value(answer.rows[r][LastIndex(columns, c)])]] ]

\* db_factory.rs 160-185 / 208-233: columns of the first row, every row as a map
MySqlRows(answer) == MySqlRowsOf(answer, first_row_columns(answer))

\* db_factory.rs 454-489 / 511-544: columns of the statement, every row as a map
SqliteRows(answer) ==
    [ columns |-> answer.columns,
      column_details |-> [i \in DOMAIN answer.columns |->
                             ColumnDetail(answer.columns[i], T_UNKNOWN, TRUE)],
      data |-> [r \in DOMAIN answer.rows |->
                   [c \in Range(answer.columns) |->
                       SqliteBackend_convert_value(
                           answer.rows[r][LastIndex(answer.columns, c)])]] ]

\* db_factory.rs 187-200 / 491-504: the TableData of a page
page_of(query, answer, m, p) ==
    TableDataOk(<<query>>, answer.rows, 0, p.has_more, m.columns, m.column_details, p.rows)

paged(query, answer, m, per_page) == page_of(query, answer, m, pop_has_more(m.data, per_page))

\* db_factory.rs 235-242 / 546-553: the TableData of a free query
result_of(query, answer, m) ==
    TableDataOk(<<query>>, answer.rows, Len(m.data), FALSE, m.columns, m.column_details, m.data)

MySqlPage(query, answer, per_page) ==
    IF ~answer.ok THEN TableDataErr(<<query>>)
    ELSE paged(query, answer, MySqlRows(answer), per_page)

MySqlSelect(rows, query, per_page) == MySqlPage(query, EngineSelect("mysql", rows, query), per_page)

\* db_factory.rs 96-201
MySqlBackend_get_table_data(rows, table_name, page, per_page, where_clause, sort_column, sort_direction) ==
    IF profile = "debug" /\ select_overflows(page, per_page, where_clause)
    THEN TableDataPanic
    ELSE MySqlSelect(rows, select_query("mysql", table_name, page, per_page, where_clause,
                                        sort_column, sort_direction), per_page)

SqlitePage(query, answer, per_page) ==
    IF ~answer.ok THEN TableDataErr(<<query>>)
    ELSE paged(query, answer, SqliteRows(answer), per_page)

SqliteSelect(rows, query, per_page) ==
    SqlitePage(query, EngineSelect("sqlite", rows, query), per_page)

\* db_factory.rs 391-505
SqliteBackend_get_table_data(rows, table_name, page, per_page, where_clause, sort_column, sort_direction) ==
    IF profile = "debug" /\ select_overflows(page, per_page, where_clause)
    THEN TableDataPanic
    ELSE SqliteSelect(rows, select_query("sqlite", table_name, page, per_page, where_clause,
                                         sort_column, sort_direction), per_page)

MySqlResult(query, answer) ==
    IF ~answer.ok THEN TableDataErr(<<query>>) ELSE result_of(query, answer, MySqlRows(answer))

\* db_factory.rs 203-243
MySqlBackend_execute_query(rows, query) == MySqlResult(query, EngineSelect("mysql", rows, query))

SqliteResult(query, answer) ==
    IF ~answer.ok THEN TableDataErr(<<query>>) ELSE result_of(query, answer, SqliteRows(answer))

\* db_factory.rs 507-554
SqliteBackend_execute_query(rows, query) ==
    SqliteResult(query, EngineSelect("sqlite", rows, query))

\* The outcome of get_total_rows.
TotalOk(total, issued) == [ok |-> TRUE, total |-> total, issued |-> issued]

TotalErr(issued) == [ok |-> FALSE, total |-> 0, issued |-> issued]

\* db_factory.rs 301-341 / 611-621
where_clause_for_count(where_clause) ==
    IF where_clause.some /\ ~trim_is_empty(where_clause.v)
    THEN T_WHERE \o where_clause.v
    ELSE <<>>

total_rows_query(table_name, where_clause) ==
    T_COUNT_FROM \o table_name \o where_clause_for_count(where_clause)

\* conn.query_first(query)?: Option<u64>, then count.unwrap_or(0)
MySqlCounted(query, counted) ==
    IF ~counted.ok THEN TotalErr(<<query>>)
    ELSE TotalOk(IF counted.row.some THEN counted.row.v ELSE 0, <<query>>)

\* db_factory.rs 293-347
MySqlBackend_get_total_rows(rows, table_name, where_clause) ==
    MySqlCounted(total_rows_query(table_name, where_clause),
                 EngineCount("mysql", rows, total_rows_query(table_name, where_clause)))

\* stmt.query_row([], |row| row.get(0))?: no row is an error
SqliteCounted(query, counted) ==
    IF ~counted.ok \/ ~counted.row.some THEN TotalErr(<<query>>)
    ELSE TotalOk(counted.row.v, <<query>>)

\* db_factory.rs 606-630
SqliteBackend_get_total_rows(rows, table_name, where_clause) ==
    SqliteCounted(total_rows_query(table_name, where_clause),
                  EngineCount("sqlite", rows, total_rows_query(table_name, where_clause)))

(***************************************************************************)
(* commands/db_tool_commands.rs: the command functions that open a pool    *)
(* of their own and build their statements themselves (client/server       *)
(* engine only).  Their TableData is {total, columns, rows}, a cell being  *)
(* a String, which is always present.                                      *)
(***************************************************************************)
LegacyRowsOf(answer, columns) ==
    [ columns |-> columns,
      column_details |-> <<>>,
      data |-> [r \in DOMAIN answer.rows |->
                   [c \in Range(columns) |->
                       Some(convert_mysql_value(answer.rows[r][LastIndex(columns, c)]))]] ]

\* db_tool_commands.rs 282-301 / 322-341
LegacyRows(answer) == LegacyRowsOf(answer, first_row_columns(answer))

strip_plus(t) == IF t # <<>> /\ t[1] = "+" THEN Tail(t) ELSE t

\* str::parse::<u32>() of a text of at most nine digits, or of an optional + and digits
parses_as_u32(t) == IsDigits(strip_plus(t)) /\ Len(strip_plus(t)) <= 9

parse_u32(t) == u32(parse_nat(strip_plus(t)))

\* split_whitespace().next() of a trimmed text
first_word(t) ==
    SubSeq(t, 1, Min({i \in DOMAIN t : t[i] \in Whitespace} \cup {Len(t) + 1}) - 1)

limit_or(limit_str, per_page) ==
    IF parses_as_u32(limit_str) THEN parse_u32(limit_str) ELSE per_page

\* db_tool_commands.rs 243-248: the first word after the last LIMIT, when it parses as u32
legacy_limit_override(clause, index, per_page) ==
    limit_or(first_word(trim(SubSeq(clause, index + 5, Len(clause)))), per_page)

legacy_where_at(clause, index, per_page) ==
    IF index # 0
    THEN [ for_select |-> T_WHERE \o clause,
           for_count |-> T_WHERE \o trim(SubSeq(clause, 1, index - 1)),
           has_limit |-> TRUE,
           per_page |-> legacy_limit_override(clause, index, per_page) ]
    ELSE [ for_select |-> T_WHERE \o clause, for_count |-> T_WHERE \o clause,
           has_limit |-> FALSE, per_page |-> per_page ]

\* db_tool_commands.rs 231-254: (where_clause_for_select, where_clause_for_count,
\* has_limit_in_where, per_page)
legacy_where(where_clause, per_page) ==
    IF where_clause.some /\ ~trim_is_empty(where_clause.v)
    THEN legacy_where_at(where_clause.v, rfind(to_uppercase(where_clause.v), T_LIMIT), per_page)
    ELSE [for_select |-> <<>>, for_count |-> <<>>, has_limit |-> FALSE, per_page |-> per_page]

\* db_tool_commands.rs 262-268
legacy_select_query(table_name, w, offset) ==
    IF w.has_limit
    THEN T_SELECT_FROM \o table_name \o w.for_select
    ELSE T_SELECT_FROM \o table_name \o w.for_select
             \o T_LIMIT_KW \o u32_to_string(w.per_page)
             \o T_OFFSET_KW \o u32_to_string(offset.v)

legacy_page(count_query, query, counted, answer, m) ==
    TableDataOk(<<count_query, query>>, answer.rows,
                IF counted.row.some THEN counted.row.v ELSE 0,
                FALSE, m.columns, <<>>, m.data)

legacy_answers(count_query, query, counted, answer) ==
    IF ~counted.ok THEN TableDataErr(<<count_query>>)
    ELSE IF ~answer.ok THEN TableDataErr(<<count_query, query>>)
    ELSE legacy_page(count_query, query, counted, answer, LegacyRows(answer))

legacy_issue(rows, count_query, query) ==
    legacy_answers(count_query, query, EngineCount("mysql", rows, count_query),
                   EngineSelect("mysql", rows, query))

legacy_get(rows, table_name, w, offset) ==
    IF profile = "debug" /\ offset.overflow THEN TableDataPanic
    ELSE legacy_issue(rows, T_COUNT_AS_FROM \o table_name \o w.for_count,
                      legacy_select_query(table_name, w, offset))

legacy_with(rows, table_name, page, w) == legacy_get(rows, table_name, w, page_offset(page, w.per_page))

\* db_tool_commands.rs 218-310
get_table_data(rows, table_name, page, per_page, where_clause) ==
    legacy_with(rows, table_name, page, legacy_where(where_clause, per_page))

legacy_result(query, answer) ==
    IF ~answer.ok THEN TableDataErr(<<query>>) ELSE result_of(query, answer, LegacyRows(answer))

\* db_tool_commands.rs 312-348
execute_query(rows, query) == legacy_result(query, EngineSelect("mysql", rows, query))

(***************************************************************************)
(* The connection map of state.rs and the Backend factory.                 *)
(***************************************************************************)
Projects == {"A", "B"}
Threads == {1, 2}

Credentials(connection, rev) == [connection |-> connection, rev |-> rev]

\* no Backend: the project has no entry in the map
NoBackend == [id |-> 0, kind |-> "", project |-> "", creds |-> Credentials("", 0)]

Backend(id, kind, project, creds) ==
    [id |-> id, kind |-> kind, project |-> project, creds |-> creds]

\* get_db_backend with the variants swapped
get_db_backend_swapped(creds) ==
    CASE creds.connection = "mysql" -> [ok |-> TRUE, kind |-> "SqliteBackend"]
      [] creds.connection = "sqlite" -> [ok |-> TRUE, kind |-> "MySqlBackend"]
      [] OTHER -> [ok |-> FALSE, kind |-> ""]

\* db_factory.rs 633-649
get_db_backend(creds) ==
    CASE creds.connection = "mysql" -> [ok |-> TRUE, kind |-> "MySqlBackend"]
      [] creds.connection = "sqlite" -> [ok |-> TRUE, kind |-> "SqliteBackend"]
      [] OTHER -> [ok |-> FALSE, kind |-> ""]

Idle == [pc |-> "idle", project |-> "", backend |-> 0, hit |-> FALSE, rev |-> 0]

\* lib.rs 23-25: the map starts empty and unlocked
CacheAtStart ==
    /\ stored = [p \in Projects |-> Credentials(IF p = "A" THEN "sqlite" ELSE "mysql", 0)]
    /\ connections = [p \in Projects |-> NoBackend]
    /\ lock = 0
    /\ workers = [w \in Threads |-> Idle]
    /\ built = [since |-> [p \in Projects |-> 0], total |-> 0,
                failed |-> [p \in Projects |-> 0]]
    /\ budget = [ops |-> 0, saves |-> 0, invalidations |-> 0]

(***************************************************************************)
(* The projects and their locations at the start of the application: no    *)
(* project row, no .workshop directory, an empty channel (lib.rs 15-21),   *)
(* the background thread waiting on it and no command under way.           *)
(***************************************************************************)
ProjectIds == 1..MaxProjects

\* a file of given text, or no file
File(doc) == [exists |-> TRUE, doc |-> doc]
NoFile == [exists |-> FALSE, doc |-> <<>>]

\* the location of a project: what create_dir and fs::write meet there
Location(writable, composer) ==
    [ writable |-> writable, composer |-> composer, workshop |-> FALSE, json |-> NoFile ]

NoLocation == Location(FALSE, "absent")

SetupWaiting == [pc |-> "recv", id |-> 0, project_type |-> <<>>, failed |-> {}, succeeded |-> {}]

NotSaving ==
    [ pc |-> "idle", project_id |-> 0, credentials |-> <<>>, current_config |-> <<>>,
      out |-> "", before |-> NoFile, calls |-> 0 ]

ProjectsAtStart ==
    /\ projects = [rows |-> {}, next |-> 1]
    /\ disk = [i \in ProjectIds |-> NoLocation]
    /\ channel = [queue |-> <<>>, sent |-> <<>>, handed |-> <<>>]
    /\ setup = SetupWaiting
    /\ saving = NotSaving

(***************************************************************************)
(* Reading a table: one inspector call on a table content.                 *)
(***************************************************************************)
Profiles == {"debug", "release"}

ValuePool == <<LNull, LText(T_NULL), LText(T_x), LInt(5)>>

\* n rows in insertion order 2, 1, 4, 3, ..., the cells v running through ValuePool
TableOf(n) ==
    [i \in 1..n |->
        [ id |-> IF i % 2 = 1 THEN (IF i + 1 <= n THEN i + 1 ELSE i) ELSE i - 1,
          v |-> ValuePool[((i - 1) % Len(ValuePool)) + 1] ]]

PageTables == {TableOf(n) : n \in 0..MaxRows}

F_blank == <<" ", " ">>
F_id_gt_1 == <<"i","d"," ",">"," ","1">>
F_id_gt_0_LIMIT_3 == <<"i","d"," ",">"," ","0"," ","L","I","M","I","T"," ","3">>
F_id_gt_1_limit_1 == <<"i","d"," ",">"," ","1"," ","l","i","m","i","t"," ","1">>
F_id_gt_0_LIMIT_2_OFFSET_1 ==
    <<"i","d"," ",">"," ","0"," ","L","I","M","I","T"," ","2"," ","O","F","F","S","E","T"," ","1">>
F_bad == <<"x"," ","=">>
\* the letters LIMIT inside a string literal and inside a longer identifier
F_v_unlimited == <<"v"," ","="," ","'","u","n","l","i","m","i","t","e","d","'">>
F_limit_value_gt_3 == <<"l","i","m","i","t","_","v","a","l","u","e"," ",">"," ","3">>

Filters == { None, Some(F_blank), Some(F_id_gt_1), Some(F_id_gt_0_LIMIT_3),
             Some(F_id_gt_1_limit_1), Some(F_id_gt_0_LIMIT_2_OFFSET_1), Some(F_bad),
             Some(F_v_unlimited), Some(F_limit_value_gt_3) }
\* a sort column that holds the quote characters of both engines
S_quotes == <<Backtick, "i", DoubleQuote, DoubleQuote, "d", Backtick>>

SortColumns == {None, Some(F_blank), Some(T_id), Some(S_quotes)}
SortDirections == {None, Some(<<"d","e","s","c">>), Some(<<"u","p">>)}
Pages == 0..MaxPage
PerPages == 0..MaxPerPage

Q_all == T_SELECT_FROM \o T_t
Q_id_id == T_SELECT \o T_id \o T_COMMA \o T_id \o T_FROM \o T_t
Q_v_id == T_SELECT \o T_v \o T_COMMA \o T_id \o T_FROM \o T_t
Queries == { Q_all, Q_all \o T_WHERE \o F_id_gt_1, Q_all \o T_LIMIT_KW \o <<"1">>,
             <<"S","E","L","E","C","T">>, Q_id_id, Q_v_id }

NoCall == [op |-> "none"]

TableDataReqs ==
    [ page : Pages, per_page : PerPages, where_clause : Filters,
      sort_column : SortColumns, sort_direction : SortDirections ]

CallMySqlGetTableData ==
    /\ res.op = "none"
    /\ \E r \in TableDataReqs :
          res' = [ op |-> "get_table_data", impl |-> "mysql", req |-> r,
                   out |-> MySqlBackend_get_table_data(table, T_t, u32(r.page), u32(r.per_page),
                               r.where_clause, r.sort_column, r.sort_direction) ]
    /\ UNCHANGED <<profile, table>>
    /\ UNCHANGED cache_vars
    /\ UNCHANGED project_vars

CallSqliteGetTableData ==
    /\ res.op = "none"
    /\ \E r \in TableDataReqs :
          res' = [ op |-> "get_table_data", impl |-> "sqlite", req |-> r,
                   out |-> SqliteBackend_get_table_data(table, T_t, u32(r.page), u32(r.per_page),
                               r.where_clause, r.sort_column, r.sort_direction) ]
    /\ UNCHANGED <<profile, table>>
    /\ UNCHANGED cache_vars
    /\ UNCHANGED project_vars

CallGetTableData ==
    /\ res.op = "none"
    /\ \E r \in TableDataReqs :
          /\ r.sort_column = None /\ r.sort_direction = None
          /\ res' = [ op |-> "get_table_data", impl |-> "command", req |-> r,
                      out |-> get_table_data(table, T_t, u32(r.page), u32(r.per_page),
                                            r.where_clause) ]
    /\ UNCHANGED <<profile, table>>
    /\ UNCHANGED cache_vars
    /\ UNCHANGED project_vars

CallMySqlExecuteQuery ==
    /\ res.op = "none"
    /\ \E q \in Queries :
          res' = [ op |-> "execute_query", impl |-> "mysql", req |-> [query |-> q],
                   out |-> MySqlBackend_execute_query(table, q) ]
    /\ UNCHANGED <<profile, table>>
    /\ UNCHANGED cache_vars
    /\ UNCHANGED project_vars

CallSqliteExecuteQuery ==
    /\ res.op = "none"
    /\ \E q \in Queries :
          res' = [ op |-> "execute_query", impl |-> "sqlite", req |-> [query |-> q],
                   out |-> SqliteBackend_execute_query(table, q) ]
    /\ UNCHANGED <<profile, table>>
    /\ UNCHANGED cache_vars
    /\ UNCHANGED project_vars

CallExecuteQuery ==
    /\ res.op = "none"
    /\ \E q \in Queries :
          res' = [ op |-> "execute_query", impl |-> "command", req |-> [query |-> q],
                   out |-> execute_query(table, q) ]
    /\ UNCHANGED <<profile, table>>
    /\ UNCHANGED cache_vars
    /\ UNCHANGED project_vars

CallMySqlGetTotalRows ==
    /\ res.op = "none"
    /\ \E w \in Filters :
          res' = [ op |-> "get_total_rows", impl |-> "mysql", req |-> [where_clause |-> w],
                   out |-> MySqlBackend_get_total_rows(table, T_t, w) ]
    /\ UNCHANGED <<profile, table>>
    /\ UNCHANGED cache_vars
    /\ UNCHANGED project_vars

CallSqliteGetTotalRows ==
    /\ res.op = "none"
    /\ \E w \in Filters :
          res' = [ op |-> "get_total_rows", impl |-> "sqlite", req |-> [where_clause |-> w],
                   out |-> SqliteBackend_get_total_rows(table, T_t, w) ]
    /\ UNCHANGED <<profile, table>>
    /\ UNCHANGED cache_vars
    /\ UNCHANGED project_vars

InitPage ==
    /\ CacheAtStart
    /\ ProjectsAtStart
    /\ profile \in Profiles
    /\ table \in PageTables
    /\ res = NoCall

NextPage ==
    \/ CallMySqlGetTableData
    \/ CallSqliteGetTableData
    \/ CallGetTableData
    \/ CallMySqlExecuteQuery
    \/ CallSqliteExecuteQuery
    \/ CallExecuteQuery
    \/ CallMySqlGetTotalRows
    \/ CallSqliteGetTotalRows

SpecPage == InitPage /\ [][NextPage]_vars

(***************************************************************************)
(* Properties of paging.                                                   *)
(***************************************************************************)
IsBackendPage == res.op = "get_table_data" /\ res.impl \in Engines /\ res.out.ok

FilterSaysLimit(where_clause) ==
    where_clause.some /\ find(to_uppercase(where_clause.v), T_LIMIT) # 0

\* the rows of the table that the filter keeps (a filter without LIMIT)
Filtered(rows, where_clause) ==
    LET Keep(r) == (where_clause.some /\ ~trim_is_empty(where_clause.v))
                       => PredHolds(trim(where_clause.v), r)
    IN SelectSeq(rows, Keep)

\* how many filtered rows follow the offset of the requested page
Following(rows, req) ==
    LET n == Len(Filtered(rows, req.where_clause)) - (req.page - 1) * req.per_page
    IN IF n > 0 THEN n ELSE 0

\* C1: a page of a filter without LIMIT, page >= 1, holds at most per_page rows, and
\* has_more is true exactly when more than per_page filtered rows follow the offset
\* (false when exactly per_page or fewer remain).
C1_PageBound ==
    (IsBackendPage /\ res.req.page >= 1 /\ ~FilterSaysLimit(res.req.where_clause))
        => /\ Len(res.out.rows) <= res.req.per_page
           /\ res.out.has_more <=> (Following(table, res.req) > res.req.per_page)
           /\ Len(res.out.rows) =
                  (IF Following(table, res.req) > res.req.per_page
                   THEN res.req.per_page ELSE Following(table, res.req))

\* a second page that holds exactly the per_page rows that remained
C1_Witness ==
    /\ IsBackendPage /\ res.req.page >= 2 /\ res.req.per_page >= 1
    /\ ~FilterSaysLimit(res.req.where_clause)
    /\ res.req.where_clause.some /\ ~trim_is_empty(res.req.where_clause.v)
    /\ Following(table, res.req) = res.req.per_page
    /\ Len(res.out.rows) = res.req.per_page
    /\ ~res.out.has_more

\* the statement a filter with LIMIT must yield: the filter verbatim after WHERE
VerbatimSelect(where_clause) == T_SELECT_FROM \o T_t \o T_WHERE \o where_clause.v

\* C2: when the filter contains LIMIT the select is the filter verbatim after WHERE,
\* with no added ORDER BY, LIMIT or OFFSET, and every row the statement yields is
\* returned whatever page and per_page are: no row is dropped and has_more is not set.
C2_LimitVerbatim ==
    ( /\ res.op = "get_table_data" /\ res.impl \in Engines
      /\ res.req.page >= 1 /\ FilterSaysLimit(res.req.where_clause) )
        => /\ ~res.out.panicked
           /\ res.out.issued = <<VerbatimSelect(res.req.where_clause)>>
           /\ res.out.ok => /\ Len(res.out.rows) = Len(res.out.raw)
                            /\ ~res.out.has_more

\* a filter with LIMIT whose statement went out verbatim and came back whole
C2_Witness ==
    /\ IsBackendPage /\ FilterSaysLimit(res.req.where_clause)
    /\ res.out.issued = <<VerbatimSelect(res.req.where_clause)>>
    /\ Len(res.out.raw) = 2 /\ Len(res.out.rows) = 2 /\ ~res.out.has_more

IsRows == res.op \in {"get_table_data", "execute_query"} /\ res.out.ok

EngineNulls == {MySqlNULL, SqliteNull}

\* C10: every cell returned for an engine NULL is None, by table_page and by
\* run_query alike; the text "NULL" never stands for an engine NULL.
C10_NullIsNone ==
    IsRows => \A r \in DOMAIN res.out.rows : \A c \in DOMAIN res.out.rows[r] :
                  res.out.raw[r][LastIndex(res.out.columns, c)] \in EngineNulls
                      => res.out.rows[r][c] = None

\* a Backend returned a NULL cell as None next to a cell holding the text NULL
C10_Witness ==
    /\ IsRows /\ res.impl \in Engines /\ T_v \in Range(res.out.columns)
    /\ \E r \in DOMAIN res.out.rows :
          /\ res.out.raw[r][LastIndex(res.out.columns, T_v)] \in EngineNulls
          /\ res.out.rows[r][T_v] = None
    /\ \E r \in DOMAIN res.out.rows : res.out.rows[r][T_v] = Some(T_NULL)

\* a TableData returned by a Backend
IsBackendRows == IsRows /\ res.impl \in Engines

\* every row has one entry per element of columns
RowsAligned(out) ==
    \A r \in DOMAIN out.rows :
        /\ Cardinality(DOMAIN out.rows[r]) = Len(out.columns)
        /\ \A i \in DOMAIN out.columns : out.columns[i] \in DOMAIN out.rows[r]

\* column_details runs along columns
DetailsAligned(out) ==
    /\ Len(out.column_details) = Len(out.columns)
    /\ \A i \in DOMAIN out.columns : out.column_details[i].name = out.columns[i]

\* C14: in every TableData of table_page and run_query each row has exactly one
\* entry per listed column (as many entries as columns has elements), and
\* column_details has the length of columns with column_details[i].name = columns[i].
C14_Aligned == IsBackendRows => RowsAligned(res.out) /\ DetailsAligned(res.out)

\* a Backend returned rows of two differently named columns, aligned
C14_Witness ==
    /\ IsBackendRows /\ res.out.rows # <<>> /\ Len(res.out.columns) = 2
    /\ res.out.columns[1] # res.out.columns[2]
    /\ RowsAligned(res.out) /\ DetailsAligned(res.out)

\* a call that counted rows: get_total_rows, or the command function
\* get_table_data, whose first statement is its count
Counted ==
    \/ res.op = "get_total_rows"
    \/ res.op = "get_table_data" /\ res.impl = "command" /\ res.out.issued # <<>>

\* the text after the table name of a count statement
CountTail(text) ==
    IF MatchAt(text, T_COUNT_AS_FROM \o T_t, 1)
    THEN SubSeq(text, Len(T_COUNT_AS_FROM \o T_t) + 1, Len(text))
    ELSE IF MatchAt(text, T_COUNT_FROM \o T_t, 1)
    THEN SubSeq(text, Len(T_COUNT_FROM \o T_t) + 1, Len(text))
    ELSE <<"?">>

\* " WHERE " and the filter as given when the filter is not blank, else nothing
GivenFilter(where_clause) ==
    IF where_clause.some /\ \E i \in DOMAIN where_clause.v : where_clause.v[i] \notin Whitespace
    THEN T_WHERE \o where_clause.v
    ELSE <<>>

\* C15: wherever rows are counted the statement is SELECT COUNT(*) FROM <table>,
\* followed by WHERE and the filter exactly as given when the filter is not
\* blank; a LIMIT inside the filter is kept, not stripped.
C15_CountVerbatim ==
    Counted => CountTail(res.out.issued[1]) = GivenFilter(res.req.where_clause)

\* get_total_rows of a Backend kept the LIMIT of the filter in its count
C15_Witness ==
    /\ res.op = "get_total_rows" /\ res.out.ok
    /\ res.req.where_clause = Some(F_id_gt_0_LIMIT_3)
    /\ res.out.issued = <<T_COUNT_FROM \o T_t \o T_WHERE \o F_id_gt_0_LIMIT_3>>
    /\ res.out.total = Len(table) /\ table # <<>>

\* a table_page or run_query of a Backend
IsBackendCall == res.op \in {"get_table_data", "execute_query"} /\ res.impl \in Engines

\* the call of res as the Backend of the other engine answers it on the same content
OtherBackend(op, impl, rows, req) ==
    CASE op = "get_table_data" /\ impl = "mysql" ->
           SqliteBackend_get_table_data(rows, T_t, u32(req.page), u32(req.per_page),
                                        req.where_clause, req.sort_column, req.sort_direction)
      [] op = "get_table_data" /\ impl = "sqlite" ->
           MySqlBackend_get_table_data(rows, T_t, u32(req.page), u32(req.per_page),
                                       req.where_clause, req.sort_column, req.sort_direction)
      [] op = "execute_query" /\ impl = "mysql" -> SqliteBackend_execute_query(rows, req.query)
      [] OTHER -> MySqlBackend_execute_query(rows, req.query)

SameAnswer(a, b) ==
    /\ a.ok = b.ok /\ a.panicked = b.panicked
    /\ a.columns = b.columns /\ a.rows = b.rows /\ a.has_more = b.has_more

\* C19: on the same content and the same request the two Backends return the same
\* columns, the same rows and the same has_more; a result with zero rows lists
\* the result's column names on both engines.
C19_EnginesAgree ==
    IsBackendCall =>
        /\ SameAnswer(res.out, OtherBackend(res.op, res.impl, table, res.req))
        /\ res.out.ok => res.out.columns # <<>>

\* both Backends returned the same page of rows, with more to come
C19_Witness ==
    /\ IsBackendCall /\ res.out.ok /\ res.out.rows # <<>> /\ res.out.has_more
    /\ SameAnswer(res.out, OtherBackend(res.op, res.impl, table, res.req))

\* a table_page of a Backend for a page of the 1-based numbering, with a filter
\* that holds no LIMIT
IsPlainPage ==
    /\ res.op = "get_table_data" /\ res.impl \in Engines
    /\ res.req.page >= 1 /\ ~FilterSaysLimit(res.req.where_clause)

\* a text with every occurrence of the quote character doubled
RECURSIVE Doubled(_, _)
Doubled(text, q) ==
    IF text = <<>> THEN <<>>
    ELSE Doubled(SubSeq(text, 1, Len(text) - 1), q)
             \o (IF text[Len(text)] = q THEN <<q, q>> ELSE <<text[Len(text)]>>)

\* ORDER BY, the quoted sort column and the direction, when the sort column is
\* not blank; the direction is DESC exactly when sort_direction upper-cases to DESC
GivenOrder(engine, sort_column, sort_direction) ==
    IF sort_column.some /\ \E i \in DOMAIN sort_column.v : sort_column.v[i] \notin Whitespace
    THEN <<" ","O","R","D","E","R"," ","B","Y"," ">>
             \o <<QuoteChar(engine)>> \o Doubled(sort_column.v, QuoteChar(engine))
             \o <<QuoteChar(engine)>> \o <<" ">>
             \o (IF sort_direction.some /\ to_uppercase(sort_direction.v) = <<"D","E","S","C">>
                 THEN <<"D","E","S","C">> ELSE <<"A","S","C">>)
    ELSE <<>>

GivenSelect(engine, req) ==
    <<"S","E","L","E","C","T"," ","*"," ","F","R","O","M"," ">> \o T_t
        \o GivenFilter(req.where_clause)
        \o GivenOrder(engine, req.sort_column, req.sort_direction)
        \o <<" ","L","I","M","I","T"," ">> \o to_string(req.per_page + 1)
        \o <<" ","O","F","F","S","E","T"," ">> \o to_string((req.page - 1) * req.per_page)

\* C20: for a filter without LIMIT the select is SELECT * FROM <table>, then WHERE
\* and the filter exactly when the filter is not blank, then ORDER BY, the quoted
\* sort column and the direction exactly when the sort column is not blank, then
\* LIMIT (per_page + 1) OFFSET ((page - 1) * per_page); the direction is DESC
\* exactly when sort_direction upper-cases to DESC and ASC otherwise.
C20_SelectText == IsPlainPage => res.out.issued = <<GivenSelect(res.impl, res.req)>>

\* page 2 of a filtered table, sorted by id downwards, was selected
C20_Witness ==
    /\ IsPlainPage /\ res.out.ok /\ res.req.page = 2 /\ res.req.per_page = 1
    /\ res.req.where_clause = Some(F_id_gt_1)
    /\ res.req.sort_column = Some(T_id) /\ res.req.sort_direction = Some(<<"d","e","s","c">>)
    /\ res.out.issued = <<GivenSelect(res.impl, res.req)>>
    /\ res.out.rows # <<>>

(***************************************************************************)
(* UPDATE and DELETE as the engines execute them.  A statement is its text *)
(* and its bound parameters (Option<String>, None being NULL).  The table  *)
(* `t` has the integer primary key id and the nullable text column v.      *)
(***************************************************************************)
T_DELETE_FROM == <<"D","E","L","E","T","E"," ","F","R","O","M"," ">>
T_UPDATE == <<"U","P","D","A","T","E"," ">>
T_SET == <<" ","S","E","T"," ">>
T_EQ_PARAM == <<" ","="," ","?">>
T_EQ_VALUE == <<" ","="," ",":","v","a","l","u","e">>
T_EQ_PARAM1 == <<" ","="," ","?","1">>

\* the place of the quote that closes a quoted identifier scanned from i (0: none);
\* a doubled quote stands for one quote inside the identifier
RECURSIVE QuotedEnd(_, _, _)
QuotedEnd(s, i, q) ==
    IF i > Len(s) THEN 0
    ELSE IF s[i] # q THEN QuotedEnd(s, i + 1, q)
    ELSE IF i + 1 <= Len(s) /\ s[i + 1] = q THEN QuotedEnd(s, i + 2, q)
    ELSE i

RECURSIVE Undouble(_, _)
Undouble(s, q) ==
    IF s = <<>> THEN <<>>
    ELSE IF Len(s) >= 2 /\ s[1] = q /\ s[2] = q
    THEN <<q>> \o Undouble(SubSeq(s, 3, Len(s)), q)
    ELSE <<s[1]>> \o Undouble(Tail(s), q)

NoIdent == [ok |-> FALSE, name |-> <<>>, next |-> 0]

IdentTo(s, i, q, e) ==
    IF e = 0 \/ e = i + 1 THEN NoIdent
    ELSE [ok |-> TRUE, name |-> Undouble(SubSeq(s, i + 1, e - 1), q), next |-> e + 1]

\* the quoted identifier that starts at i; an empty identifier is a syntax error
ReadIdent(s, i, q) ==
    IF i <= Len(s) /\ s[i] = q THEN IdentTo(s, i, q, QuotedEnd(s, i + 1, q)) ELSE NoIdent

NoSets == [ok |-> FALSE, cols |-> <<>>, next |-> 0]

Cons(name, rest) ==
    IF rest.ok THEN [ok |-> TRUE, cols |-> <<name>> \o rest.cols, next |-> rest.next]
    ELSE NoSets

\* the columns of a SET list `<q>k<q> = ?, ...` that starts at i
RECURSIVE SetList(_, _, _)
SetItem(s, q, k) ==
    IF ~k.ok \/ ~MatchAt(s, T_EQ_PARAM, k.next) THEN NoSets
    ELSE IF MatchAt(s, T_COMMA, k.next + Len(T_EQ_PARAM))
    THEN Cons(k.name, SetList(s, k.next + Len(T_EQ_PARAM) + Len(T_COMMA), q))
    ELSE [ok |-> TRUE, cols |-> <<k.name>>, next |-> k.next + Len(T_EQ_PARAM)]

SetList(s, i, q) == SetItem(s, q, ReadIdent(s, i, q))

BadStatement == [ok |-> FALSE, verb |-> "", table |-> <<>>, column |-> <<>>, cols |-> <<>>]

DeleteEnds(engine) == IF engine = "mysql" THEN T_EQ_VALUE ELSE T_EQ_PARAM1

DeleteColumn(engine, s, t, c) ==
    IF c.ok /\ SubSeq(s, c.next, Len(s)) = DeleteEnds(engine)
    THEN [ok |-> TRUE, verb |-> "delete", table |-> t.name, column |-> c.name, cols |-> <<>>]
    ELSE BadStatement

DeleteTable(engine, s, t) ==
    IF t.ok /\ MatchAt(s, T_WHERE, t.next)
    THEN DeleteColumn(engine, s, t, ReadIdent(s, t.next + Len(T_WHERE), QuoteChar(engine)))
    ELSE BadStatement

UpdateColumn(s, t, l, c) ==
    IF c.ok /\ SubSeq(s, c.next, Len(s)) = T_EQ_PARAM
    THEN [ok |-> TRUE, verb |-> "update", table |-> t.name, column |-> c.name, cols |-> l.cols]
    ELSE BadStatement

UpdateSets(engine, s, t, l) ==
    IF l.ok /\ MatchAt(s, T_WHERE, l.next)
    THEN UpdateColumn(s, t, l, ReadIdent(s, l.next + Len(T_WHERE), QuoteChar(engine)))
    ELSE BadStatement

UpdateTable(engine, s, t) ==
    IF t.ok /\ MatchAt(s, T_SET, t.next)
    THEN UpdateSets(engine, s, t, SetList(s, t.next + Len(T_SET), QuoteChar(engine)))
    ELSE BadStatement

\* the statement as the engine reads it
ParseStatement(engine, s) ==
    IF MatchAt(s, T_DELETE_FROM, 1)
    THEN DeleteTable(engine, s, ReadIdent(s, Len(T_DELETE_FROM) + 1, QuoteChar(engine)))
    ELSE IF MatchAt(s, T_UPDATE, 1)
    THEN UpdateTable(engine, s, ReadIdent(s, Len(T_UPDATE) + 1, QuoteChar(engine)))
    ELSE BadStatement

\* column = value, the value being bound as text
CellEquals(r, column, value) ==
    IF column = T_id THEN IsDigits(value) /\ Len(value) <= 9 /\ parse_nat(value) = r.id
    ELSE \/ r.v.kind = "text" /\ r.v.s = value
         \/ r.v.kind = "int" /\ to_string(r.v.n) = value

SetOK(col, p) == col = T_v \/ (p.some /\ IsDigits(p.v) /\ Len(p.v) <= 9)

SetCell(r, col, p) ==
    IF col = T_v THEN [r EXCEPT !.v = IF p.some THEN LText(p.v) ELSE LNull]
    ELSE [r EXCEPT !.id = parse_nat(p.v)]

RECURSIVE SetCells(_, _, _)
SetCells(r, cols, params) ==
    IF cols = <<>> THEN r
    ELSE SetCells(SetCell(r, Head(cols), Head(params)), Tail(cols), Tail(params))

UniqueIds(rows) == \A i, j \in DOMAIN rows : rows[i].id = rows[j].id => i = j

ExecError(rows) == [ok |-> FALSE, rows |-> rows, affected |-> 0]

Matching(rows, column, value) == {i \in DOMAIN rows : CellEquals(rows[i], column, value)}

Updated(rows, hit, cols, params) ==
    [i \in DOMAIN rows |-> IF i \in hit THEN SetCells(rows[i], cols, params) ELSE rows[i]]

\* affected rows: the rows changed (client/server engine) or matched (embedded engine)
UpdateDone(engine, rows, hit, new) ==
    IF ~UniqueIds(new) THEN ExecError(rows)
    ELSE [ ok |-> TRUE, rows |-> new,
           affected |-> IF engine = "mysql"
                        THEN Cardinality({i \in hit : new[i] # rows[i]})
                        ELSE Cardinality(hit) ]

UpdateHits(engine, rows, st, params, hit) ==
    UpdateDone(engine, rows, hit, Updated(rows, hit, st.cols, params))

DeleteHits(rows, hit) ==
    [ ok |-> TRUE, affected |-> Cardinality(hit),
      rows |-> LET Keep(r) == \A i \in hit : rows[i] # r IN SelectSeq(rows, Keep) ]

ExecParsed(engine, rows, st, params) ==
    IF \/ ~st.ok \/ st.table # T_t \/ st.column \notin Range(TableColumns)
       \/ \E i \in DOMAIN st.cols : st.cols[i] \notin Range(TableColumns)
       \/ Len(params) # Len(st.cols) + 1
       \/ ~params[Len(params)].some
       \/ \E i \in DOMAIN st.cols : ~SetOK(st.cols[i], params[i])
    THEN ExecError(rows)
    ELSE IF st.verb = "delete"
    THEN DeleteHits(rows, Matching(rows, st.column, params[Len(params)].v))
    ELSE UpdateHits(engine, rows, st, params, Matching(rows, st.column, params[Len(params)].v))

\* What the engine does with a statement and its parameters on the content rows.
EngineExec(engine, rows, text, params) ==
    ExecParsed(engine, rows, ParseStatement(engine, text), params)

(***************************************************************************)
(* update_row and delete_row.  A change set is the sequence of its         *)
(* (key, value) entries in the order the HashMap iterates them.            *)
(***************************************************************************)
\* The outcome of a call that returns the affected count; after is the table
\* content the call leaves behind.
RowsOk(affected, issued, after) ==
    [ok |-> TRUE, err |-> "", affected |-> affected, issued |-> issued, after |-> after]

RowsErr(err, issued, after) ==
    [ok |-> FALSE, err |-> err, affected |-> 0, issued |-> issued, after |-> after]

Statement(text, params) == [text |-> text, params |-> params]

\* conn.exec_drop(..).map_err(..)?; Ok(conn.affected_rows())
executed(text, params, e) ==
    IF e.ok THEN RowsOk(e.affected, <<Statement(text, params)>>, e.rows)
    ELSE RowsErr("Engine", <<Statement(text, params)>>, e.rows)

exec_drop(engine, rows, text, params) ==
    executed(text, params, EngineExec(engine, rows, text, params))

\* a DELETE with the table and the column in each other's place
delete_stmt_swapped(engine, table_name, pk_column) ==
    T_DELETE_FROM \o <<QuoteChar(engine)>> \o pk_column \o <<QuoteChar(engine)>> \o T_WHERE
        \o <<QuoteChar(engine)>> \o table_name \o <<QuoteChar(engine)>> \o DeleteEnds(engine)

\* db_factory.rs 252-255 / 562-565
delete_stmt(engine, table_name, pk_column) ==
    T_DELETE_FROM \o <<QuoteChar(engine)>> \o table_name \o <<QuoteChar(engine)>> \o T_WHERE
        \o <<QuoteChar(engine)>> \o pk_column \o <<QuoteChar(engine)>> \o DeleteEnds(engine)

\* db_factory.rs 245-259
MySqlBackend_delete_row(rows, table_name, pk_column, pk_value) ==
    exec_drop("mysql", rows, delete_stmt("mysql", table_name, pk_column), <<Some(pk_value)>>)

\* db_factory.rs 556-571
SqliteBackend_delete_row(rows, table_name, pk_column, pk_value) ==
    exec_drop("sqlite", rows, delete_stmt("sqlite", table_name, pk_column), <<Some(pk_value)>>)

\* the entries whose key is not the primary-key column
without_pk(data, pk_column) ==
    LET Keep(e) == e.key # pk_column IN SelectSeq(data, Keep)

\* a SET list that writes every value into the statement text
RECURSIVE join_sets_with_values(_, _)
join_sets_with_values(entries, q) ==
    IF entries = <<>> THEN <<>>
    ELSE <<q>> \o entries[1].key \o <<q>> \o <<" ", "=", " ">>
             \o (IF entries[1].value.some THEN entries[1].value.v ELSE T_NULL)
             \o (IF Len(entries) > 1 THEN T_COMMA ELSE <<>>)
             \o join_sets_with_values(Tail(entries), q)

\* sets.join(", ")
RECURSIVE join_sets(_, _)
join_sets(entries, q) ==
    IF entries = <<>> THEN <<>>
    ELSE <<q>> \o entries[1].key \o <<q>> \o T_EQ_PARAM
             \o (IF Len(entries) > 1 THEN T_COMMA ELSE <<>>)
             \o join_sets(Tail(entries), q)

\* db_factory.rs 282-287 / 587-592
update_stmt(engine, table_name, entries, pk_column) ==
    T_UPDATE \o <<QuoteChar(engine)>> \o table_name \o <<QuoteChar(engine)>> \o T_SET
        \o join_sets(entries, QuoteChar(engine)) \o T_WHERE
        \o <<QuoteChar(engine)>> \o pk_column \o <<QuoteChar(engine)>> \o T_EQ_PARAM

update_params(entries, pk_value) == [i \in DOMAIN entries |-> entries[i].value] \o <<Some(pk_value)>>

update_entries(engine, rows, table_name, pk_column, pk_value, entries) ==
    exec_drop(engine, rows, update_stmt(engine, table_name, entries, pk_column),
              update_params(entries, pk_value))

\* db_factory.rs 261-291
MySqlBackend_update_row(rows, table_name, pk_column, pk_value, data) ==
    update_entries("mysql", rows, table_name, pk_column, pk_value, without_pk(data, pk_column))

\* db_factory.rs 573-603
SqliteBackend_update_row(rows, table_name, pk_column, pk_value, data) ==
    update_entries("sqlite", rows, table_name, pk_column, pk_value, without_pk(data, pk_column))

\* db_tool_commands.rs 350-383
delete_row(rows, table_name, pk_column, pk_value) ==
    IF ~is_valid_ident(table_name) \/ ~is_valid_ident(pk_column)
    THEN RowsErr("InvalidIdentifier", <<>>, rows)
    ELSE exec_drop("mysql", rows, delete_stmt("mysql", table_name, pk_column), <<Some(pk_value)>>)

\* db_tool_commands.rs 403-434
update_checked(rows, table_name, pk_column, pk_value, update_data) ==
    IF update_data = <<>> THEN RowsOk(0, <<>>, rows)
    ELSE IF \E i \in DOMAIN update_data : ~is_valid_ident(update_data[i].key)
    THEN RowsErr("InvalidIdentifier", <<>>, rows)
    ELSE update_entries("mysql", rows, table_name, pk_column, pk_value, update_data)

\* db_tool_commands.rs 385-434
update_row(rows, table_name, pk_column, pk_value, data) ==
    IF ~is_valid_ident(table_name) \/ ~is_valid_ident(pk_column)
    THEN RowsErr("InvalidIdentifier", <<>>, rows)
    ELSE update_checked(rows, table_name, pk_column, pk_value, without_pk(data, pk_column))

(***************************************************************************)
(* Changing a table: one update_row or delete_row on a table content.      *)
(***************************************************************************)
Entry(key, value) == [key |-> key, value |-> value]

T_bad_semicolon == <<"t", ";">>
T_bad_quote == <<"t", Backtick>>
T_bad_space == <<"i", "d", " ">>
T_bad_dash == <<"v", "-">>
T_1 == <<"1">>
T_2 == <<"2">>
T_9 == <<"9">>
T_w == <<"w">>

TableNames == {T_t, <<>>, T_bad_semicolon, T_bad_quote}
PkColumns == {T_id, T_v, <<>>, T_bad_space}
PkValues == {T_1, T_2, T_9, T_x}

ChangeSets ==
    { <<>>,
      <<Entry(T_v, Some(T_x))>>,
      <<Entry(T_v, Some(T_NULL))>>,
      <<Entry(T_v, None)>>,
      <<Entry(T_id, Some(T_1))>>,
      <<Entry(T_id, Some(T_1)), Entry(T_v, Some(T_x))>>,
      <<Entry(T_v, Some(T_x)), Entry(T_id, Some(T_9))>>,
      <<Entry(T_bad_dash, Some(T_x))>>,
      <<Entry(<<>>, Some(T_x))>>,
      <<Entry(T_v, Some(T_x)), Entry(T_w, Some(T_x))>>,
      <<Entry(T_w, Some(T_1)), Entry(T_v, None)>> }

\* the change sets the command function can be given: HashMap<String, String>
TextChangeSets == {d \in ChangeSets : \A i \in DOMAIN d : d[i].value.some}

RowReqs == [table_name : TableNames, pk_column : PkColumns, pk_value : PkValues]

\* no page has been read since the call
NoRead == [done |-> FALSE, out |-> TableDataPanic]

RowCall(op, impl, req, data, out) ==
    [ op |-> op, impl |-> impl, req |-> req, data |-> data, out |-> out,
      before |-> table, read |-> NoRead ]

\* db_tool_commands.rs 385-391: the command is declared with
\* data: HashMap<String, String>; a change set with an absent value does not
\* deserialize into it and the call fails before the function body runs.
invoke_update_row(rows, table_name, pk_column, pk_value, data) ==
    IF data \notin TextChangeSets THEN RowsErr("InvalidArgs", <<>>, rows)
    ELSE update_row(rows, table_name, pk_column, pk_value, data)

CallMySqlUpdateRow ==
    /\ res.op = "none"
    /\ \E r \in RowReqs, d \in ChangeSets :
          res' = RowCall("update_row", "mysql", r, d,
                     MySqlBackend_update_row(table, r.table_name, r.pk_column, r.pk_value, d))
    /\ table' = res'.out.after
    /\ UNCHANGED profile
    /\ UNCHANGED cache_vars
    /\ UNCHANGED project_vars

CallSqliteUpdateRow ==
    /\ res.op = "none"
    /\ \E r \in RowReqs, d \in ChangeSets :
          res' = RowCall("update_row", "sqlite", r, d,
                     SqliteBackend_update_row(table, r.table_name, r.pk_column, r.pk_value, d))
    /\ table' = res'.out.after
    /\ UNCHANGED profile
    /\ UNCHANGED cache_vars
    /\ UNCHANGED project_vars

CallUpdateRow ==
    /\ res.op = "none"
    /\ \E r \in RowReqs, d \in ChangeSets :
          res' = RowCall("update_row", "command", r, d,
                     invoke_update_row(table, r.table_name, r.pk_column, r.pk_value, d))
    /\ table' = res'.out.after
    /\ UNCHANGED profile
    /\ UNCHANGED cache_vars
    /\ UNCHANGED project_vars

CallMySqlDeleteRow ==
    /\ res.op = "none"
    /\ \E r \in RowReqs :
          res' = RowCall("delete_row", "mysql", r, <<>>,
                     MySqlBackend_delete_row(table, r.table_name, r.pk_column, r.pk_value))
    /\ table' = res'.out.after
    /\ UNCHANGED profile
    /\ UNCHANGED cache_vars
    /\ UNCHANGED project_vars

CallSqliteDeleteRow ==
    /\ res.op = "none"
    /\ \E r \in RowReqs :
          res' = RowCall("delete_row", "sqlite", r, <<>>,
                     SqliteBackend_delete_row(table, r.table_name, r.pk_column, r.pk_value))
    /\ table' = res'.out.after
    /\ UNCHANGED profile
    /\ UNCHANGED cache_vars
    /\ UNCHANGED project_vars

CallDeleteRow ==
    /\ res.op = "none"
    /\ \E r \in RowReqs :
          res' = RowCall("delete_row", "command", r, <<>>,
                     delete_row(table, r.table_name, r.pk_column, r.pk_value))
    /\ table' = res'.out.after
    /\ UNCHANGED profile
    /\ UNCHANGED cache_vars
    /\ UNCHANGED project_vars

\* the first page of table t, large enough for the whole table, as the
\* implementation that made the change reads it
read_page(impl, rows) ==
    CASE impl = "mysql" ->
           MySqlBackend_get_table_data(rows, T_t, u32(1), u32(MaxRows), None, None, None)
      [] impl = "sqlite" ->
           SqliteBackend_get_table_data(rows, T_t, u32(1), u32(MaxRows), None, None, None)
      [] OTHER -> get_table_data(rows, T_t, u32(1), u32(MaxRows), None)

\* table_page after an update_row
ReadBack ==
    /\ res.op = "update_row"
    /\ ~res.read.done
    /\ res' = [res EXCEPT !.read = [done |-> TRUE, out |-> read_page(res.impl, table)]]
    /\ UNCHANGED <<profile, table>>
    /\ UNCHANGED cache_vars
    /\ UNCHANGED project_vars

InitRows ==
    /\ CacheAtStart
    /\ ProjectsAtStart
    /\ profile = "release"
    /\ table \in PageTables
    /\ res = NoCall

NextRows ==
    \/ CallMySqlUpdateRow
    \/ CallSqliteUpdateRow
    \/ CallUpdateRow
    \/ CallMySqlDeleteRow
    \/ CallSqliteDeleteRow
    \/ CallDeleteRow
    \/ ReadBack

SpecRows == InitRows /\ [][NextRows]_vars

(***************************************************************************)
(* Properties of update_row and delete_row.                                *)
(***************************************************************************)
IsRowCall == res.op \in {"update_row", "delete_row"}

IdentifierChar(c) == is_ascii_alphanumeric(c) \/ c = "_"

\* some character of s is not an ASCII letter, digit or underscore
HasBadChar(s) == \E i \in DOMAIN s : ~IdentifierChar(s[i])

\* C3: update_row and delete_row given a table name, primary-key column or change-set
\* key with a character other than an ASCII letter, digit or underscore fail with
\* InvalidIdentifier and send no statement to the engine, in every implementation.
C3_InvalidIdentifier ==
    ( /\ IsRowCall
      /\ \/ HasBadChar(res.req.table_name)
         \/ HasBadChar(res.req.pk_column)
         \/ \E i \in DOMAIN res.data : HasBadChar(res.data[i].key) )
        => res.out.err = "InvalidIdentifier" /\ res.out.issued = <<>>

\* the command function turned a change-set key with a dash away unsent
C3_Witness ==
    /\ IsRowCall /\ res.impl = "command" /\ res.op = "update_row"
    /\ ~HasBadChar(res.req.table_name) /\ ~HasBadChar(res.req.pk_column)
    /\ \E i \in DOMAIN res.data : HasBadChar(res.data[i].key)
    /\ res.out.err = "InvalidIdentifier" /\ res.out.issued = <<>>

\* C4: the empty string is not a valid identifier: a call whose table name,
\* primary-key column or change-set key is empty is turned away by the validator.
C4_EmptyRejected ==
    ( /\ IsRowCall /\ res.impl = "command"
      /\ \/ res.req.table_name = <<>>
         \/ res.req.pk_column = <<>>
         \/ \E i \in DOMAIN res.data : res.data[i].key = <<>> )
        => res.out.err = "InvalidIdentifier" /\ res.out.issued = <<>>

\* an update_row of table t by primary key id whose change set is one entry for
\* column v, on a table that holds a row with that id, followed by a read
IsRoundTrip ==
    /\ res.op = "update_row" /\ res.read.done
    /\ res.req.table_name = T_t /\ res.req.pk_column = T_id
    /\ Len(res.data) = 1 /\ res.data[1].key = T_v
    /\ \E i \in DOMAIN res.before : CellEquals(res.before[i], T_id, res.req.pk_value)

\* the page read back holds the row of the primary key with the written cell
ReadsBack(page, pk_value, value) ==
    /\ page.ok
    /\ \E r \in DOMAIN page.rows : page.rows[r][T_id] = Some(pk_value)
    /\ \A r \in DOMAIN page.rows :
          page.rows[r][T_id] = Some(pk_value) => page.rows[r][T_v] = value

\* C11: update_row of an existing row with {v: Some(x)} followed by table_page
\* yields Some(x) for the cell, and with {v: None} yields None: the update entry
\* point accepts an absent value and stores it as the engine's NULL.
C11_RoundTrip ==
    IsRoundTrip => res.out.ok /\ ReadsBack(res.read.out, res.req.pk_value, res.data[1].value)

\* a Backend wrote the absent value and read None back
C11_Witness ==
    /\ IsRoundTrip /\ res.impl \in Engines /\ res.data[1].value = None
    /\ \E i \in DOMAIN res.before :
          CellEquals(res.before[i], T_id, res.req.pk_value) /\ res.before[i].v # LNull
    /\ res.out.ok /\ ReadsBack(res.read.out, res.req.pk_value, None)

\* the engine an implementation talks to: the command functions open a
\* client/server pool
EngineOf(impl) == IF impl = "sqlite" THEN "sqlite" ELSE "mysql"

\* an update_row of table t by one of its columns, with a change set the
\* implementation can be given
IsUpdate ==
    /\ res.op = "update_row"
    /\ res.req.table_name = T_t /\ res.req.pk_column \in Range(TableColumns)
    /\ res.impl = "command" => res.data \in TextChangeSets

\* the columns the engine finds in the SET list of an issued statement
SetColumns(engine, statement) == Range(ParseStatement(engine, statement.text).cols)

\* C12: update_row never puts the primary-key column into the SET list, and when
\* the change set is empty once the primary-key column is removed the call returns
\* affected_count 0 and issues no statement, in every implementation.
C12_PkExcluded ==
    IsUpdate =>
        /\ \A k \in DOMAIN res.out.issued :
              res.req.pk_column \notin SetColumns(EngineOf(res.impl), res.out.issued[k])
        /\ (\A i \in DOMAIN res.data : res.data[i].key = res.req.pk_column)
              => res.out.ok /\ res.out.affected = 0 /\ res.out.issued = <<>>

\* the command function was given only the primary-key column and sent nothing
C12_Witness ==
    /\ IsUpdate /\ res.impl = "command"
    /\ res.data # <<>> /\ \A i \in DOMAIN res.data : res.data[i].key = res.req.pk_column
    /\ res.out.ok /\ res.out.affected = 0 /\ res.out.issued = <<>>

\* the call op of implementation impl on the content rows
RunRow(op, impl, rows, req, pk_value, data) ==
    CASE op = "update_row" /\ impl = "mysql" ->
           MySqlBackend_update_row(rows, req.table_name, req.pk_column, pk_value, data)
      [] op = "update_row" /\ impl = "sqlite" ->
           SqliteBackend_update_row(rows, req.table_name, req.pk_column, pk_value, data)
      [] op = "update_row" /\ impl = "command" ->
           invoke_update_row(rows, req.table_name, req.pk_column, pk_value, data)
      [] op = "delete_row" /\ impl = "mysql" ->
           MySqlBackend_delete_row(rows, req.table_name, req.pk_column, pk_value)
      [] op = "delete_row" /\ impl = "sqlite" ->
           SqliteBackend_delete_row(rows, req.table_name, req.pk_column, pk_value)
      [] OTHER -> delete_row(rows, req.table_name, req.pk_column, pk_value)

\* the statement texts a call sent
Texts(out) == [k \in DOMAIN out.issued |-> out.issued[k].text]

KeysOf(data) == [i \in DOMAIN data |-> data[i].key]

\* a call with a change set the implementation can be given
IsTakenCall == IsRowCall /\ (res.impl = "command" => res.data \in TextChangeSets)

\* the change sets that can stand in for data in the call of res
Alternatives == IF res.impl = "command" THEN TextChangeSets ELSE ChangeSets

\* the call of res repeated with primary-key value pk_value and change set data
\* sends the statement texts the call of res sent
SameTexts(pk_value, data) ==
    Texts(RunRow(res.op, res.impl, res.before, res.req, pk_value, data)) = Texts(res.out)

\* C13 as stated: the statement text of update_row and delete_row depends only on
\* the table name, the primary-key column and the keys of the change set: two
\* calls that differ only in pk_value or in the values of the change set send
\* the same statement text.
C13_TextFromKeys ==
    IsTakenCall =>
        \A pk_value \in PkValues, data \in Alternatives :
            (Len(data) = Len(res.data) /\ Range(KeysOf(data)) = Range(KeysOf(res.data)))
                => SameTexts(pk_value, data)

\* C13 amended: two calls that differ only in pk_value or in the values of the
\* change set, and whose change sets iterate their keys in the same order, send
\* the same statement text; the values travel as parameters, the last of them
\* being pk_value.
C13_TextFromKeyOrder ==
    IsTakenCall =>
        /\ \A pk_value \in PkValues, data \in Alternatives :
              KeysOf(data) = KeysOf(res.data) => SameTexts(pk_value, data)
        /\ \A k \in DOMAIN res.out.issued :
              /\ res.out.issued[k].params # <<>>
              /\ res.out.issued[k].params[Len(res.out.issued[k].params)] = Some(res.req.pk_value)
              /\ \A i \in DOMAIN res.data :
                    res.data[i].key # res.req.pk_column
                        => \E j \in DOMAIN res.out.issued[k].params :
                              res.out.issued[k].params[j] = res.data[i].value

\* an update of column v changed a row through one statement whose parameters
\* are the value and pk_value, and another value stands ready for the same key
C13_Witness ==
    /\ IsTakenCall /\ res.op = "update_row" /\ res.out.ok /\ res.out.affected = 1
    /\ Len(res.data) = 1 /\ Len(res.out.issued) = 1
    /\ res.out.issued[1].params = <<res.data[1].value, Some(res.req.pk_value)>>
    /\ \E data \in Alternatives :
          data # res.data /\ KeysOf(data) = KeysOf(res.data) /\ SameTexts(T_9, data)

\* a delete_row of table t by one of its columns
IsDelete ==
    /\ res.op = "delete_row"
    /\ res.req.table_name = T_t /\ res.req.pk_column \in Range(TableColumns)

\* the text of a cell, where it has one
CellText(r, column) ==
    IF column = T_id THEN Some(to_string(r.id))
    ELSE IF r.v.kind = "text" THEN Some(r.v.s)
    ELSE IF r.v.kind = "int" THEN Some(to_string(r.v.n))
    ELSE None

\* the rows of the content before the call whose pk_column equals pk_value
Hits == {i \in DOMAIN res.before : CellText(res.before[i], res.req.pk_column) = Some(res.req.pk_value)}

Survivors == LET Stays(r) == \A i \in Hits : res.before[i] # r IN SelectSeq(res.before, Stays)

\* C18: delete_row returns the number of rows whose pk_column equals pk_value and
\* removes exactly those rows: 1 when one row matches, 0 when none, every other
\* row staying as it was.
C18_DeleteCount ==
    IsDelete => /\ res.out.ok
                /\ res.out.affected = Cardinality(Hits)
                /\ res.out.after = Survivors
                /\ Len(res.out.after) = Len(res.before) - res.out.affected

\* one row of several was deleted
C18_Witness ==
    /\ IsDelete /\ res.out.ok /\ res.out.affected = 1
    /\ Len(res.before) >= 2 /\ Len(res.out.after) = Len(res.before) - 1

(***************************************************************************)
(* The ORDER BY identifier of a page, read as the engine's lexer reads a   *)
(* quoted identifier.                                                      *)
(***************************************************************************)
\* a table_page of a Backend that sent a select for a sort column that is not blank
IsSortedPage ==
    /\ res.op = "get_table_data" /\ res.impl \in Engines /\ res.out.issued # <<>>
    /\ ~FilterSaysLimit(res.req.where_clause)
    /\ res.req.sort_column.some
    /\ \E i \in DOMAIN res.req.sort_column.v : res.req.sort_column.v[i] \notin Whitespace

\* the direction and the LIMIT keyword follow at place i
DirectionAt(text, i) ==
    \/ MatchAt(text, <<" ","A","S","C"," ","L","I","M","I","T"," ">>, i)
    \/ MatchAt(text, <<" ","D","E","S","C"," ","L","I","M","I","T"," ">>, i)

\* at place start stands the column between quotes with its quotes doubled, and
\* the lexer reads it as one identifier, the column, that ends where it was closed
IdentifierClosed(text, start, q, column) ==
    /\ MatchAt(text, <<q>> \o Doubled(column, q) \o <<q>>, start)
    /\ ReadIdent(text, start, q).ok
    /\ ReadIdent(text, start, q).name = column
    /\ ReadIdent(text, start, q).next = start + Len(Doubled(column, q)) + 2
    /\ DirectionAt(text, ReadIdent(text, start, q).next)

OrderIdentifier(text, q, column) ==
    /\ find(text, T_ORDER_BY) # 0
    /\ IdentifierClosed(text, find(text, T_ORDER_BY) + Len(T_ORDER_BY), q, column)

\* C21: the ORDER BY identifier of table_page is the sort column between the quote
\* characters of the engine (backtick, double quote) with every such character
\* inside it doubled; read back, the identifier is the sort column and ends at
\* the closing quote, whatever the sort column holds.
C21_QuoteDoubled ==
    IsSortedPage =>
        OrderIdentifier(res.out.issued[1], QuoteChar(res.impl), res.req.sort_column.v)

\* a sort column with two double quotes in a row went out to the embedded engine
\* with four, between the quotes of the identifier
C21_Witness ==
    /\ IsSortedPage /\ res.impl = "sqlite" /\ res.req.sort_column = Some(S_quotes)
    /\ find(res.out.issued[1],
            <<DoubleQuote, Backtick, "i", DoubleQuote, DoubleQuote, DoubleQuote, DoubleQuote,
              "d", Backtick, DoubleQuote, " ">>) # 0
    /\ OrderIdentifier(res.out.issued[1], DoubleQuote, S_quotes)

\* place i of the text lies inside a string literal
InLiteral(text, i) == Cardinality({j \in 1..(i - 1) : text[j] = "'"}) % 2 = 1

\* the word LIMIT stands at place i: not inside a literal, no identifier
\* character before or after it
LimitTokenAt(text, i) ==
    /\ MatchAt(to_uppercase(text), <<"L","I","M","I","T">>, i)
    /\ ~InLiteral(text, i)
    /\ i > 1 => ~IdentifierChar(text[i - 1])
    /\ i + 5 <= Len(text) => ~IdentifierChar(text[i + 5])

HasLimitToken(where_clause) ==
    where_clause.some /\ \E i \in DOMAIN where_clause.v : LimitTokenAt(where_clause.v, i)

\* a table_page of a Backend for a page of the 1-based numbering
IsNumberedPage == res.op = "get_table_data" /\ res.impl \in Engines /\ res.req.page >= 1

\* C22: only a LIMIT token in the filter switches paging off; a filter that holds
\* the letters LIMIT only inside a longer identifier or a string literal is paged
\* like a filter without them: ORDER BY and LIMIT (per_page + 1) OFFSET are
\* appended and has_more says whether more than per_page rows came back.
C22_LimitToken ==
    (IsNumberedPage /\ ~HasLimitToken(res.req.where_clause))
        => /\ res.out.issued = <<GivenSelect(res.impl, res.req)>>
           /\ res.out.ok => (res.out.has_more <=> Len(res.out.raw) > res.req.per_page)

\* the filter v = 'unlimited' was run by the engine
C22_Witness ==
    /\ IsNumberedPage /\ res.out.ok /\ res.req.where_clause = Some(F_v_unlimited)
    /\ ~HasLimitToken(res.req.where_clause)
    /\ find(res.out.issued[1], T_WHERE \o F_v_unlimited) # 0

(***************************************************************************)
(* Reading a table with page numbers of the whole u32 range: page and      *)
(* per_page arrive as u32, here as the halves [hi, lo].                    *)
(***************************************************************************)
U32_MAX == [hi |-> 65535, lo |-> 65535]

WidePages == {u32(0), u32(1), u32(2), u32(65537), U32_MAX}
WidePerPages == {u32(0), u32(1), u32(65535), u32(65536), U32_MAX}

WideReqs == [page : WidePages, per_page : WidePerPages]

CallMySqlGetTableDataU32 ==
    /\ res.op = "none"
    /\ \E r \in WideReqs :
          res' = [ op |-> "get_table_data_u32", impl |-> "mysql", req |-> r,
                   out |-> MySqlBackend_get_table_data(table, T_t, r.page, r.per_page,
                               None, None, None) ]
    /\ UNCHANGED <<profile, table>>
    /\ UNCHANGED cache_vars
    /\ UNCHANGED project_vars

CallSqliteGetTableDataU32 ==
    /\ res.op = "none"
    /\ \E r \in WideReqs :
          res' = [ op |-> "get_table_data_u32", impl |-> "sqlite", req |-> r,
                   out |-> SqliteBackend_get_table_data(table, T_t, r.page, r.per_page,
                               None, None, None) ]
    /\ UNCHANGED <<profile, table>>
    /\ UNCHANGED cache_vars
    /\ UNCHANGED project_vars

CallGetTableDataU32 ==
    /\ res.op = "none"
    /\ \E r \in WideReqs :
          res' = [ op |-> "get_table_data_u32", impl |-> "command", req |-> r,
                   out |-> get_table_data(table, T_t, r.page, r.per_page, None) ]
    /\ UNCHANGED <<profile, table>>
    /\ UNCHANGED cache_vars
    /\ UNCHANGED project_vars

NextPageU32 ==
    \/ CallMySqlGetTableDataU32
    \/ CallSqliteGetTableDataU32
    \/ CallGetTableDataU32

SpecPageU32 == InitPage /\ [][NextPageU32]_vars

(***************************************************************************)
(* Properties of the page arithmetic.  Numbers beyond the u32 range are    *)
(* written in decimal, most significant digit first, and computed digit by *)
(* digit.                                                                  *)
(***************************************************************************)
Front(s) == SubSeq(s, 1, Len(s) - 1)

DigitAt(s) == IF s = <<>> THEN 0 ELSE DigitValue(s[Len(s)])

RECURSIVE DecNorm(_)
DecNorm(s) ==
    IF s = <<>> THEN <<"0">>
    ELSE IF Len(s) > 1 /\ s[1] = "0" THEN DecNorm(Tail(s)) ELSE s

RECURSIVE DecSucc(_)
\* s + 1
DecSucc(s) ==
    IF s = <<>> THEN <<"1">>
    ELSE IF s[Len(s)] = "9" THEN DecSucc(Front(s)) \o <<"0">>
    ELSE Front(s) \o <<DigitChars[DigitAt(s) + 2]>>

RECURSIVE DecBorrow(_)
DecBorrow(s) ==
    IF s[Len(s)] = "0" THEN DecBorrow(Front(s)) \o <<"9">>
    ELSE Front(s) \o <<DigitChars[DigitAt(s)]>>

\* s - 1 for s >= 1
DecPred(s) == DecNorm(DecBorrow(s))

RECURSIVE DecAddCarry(_, _, _)
DecAddCarry(a, b, carry) ==
    IF a = <<>> /\ b = <<>> THEN (IF carry = 0 THEN <<>> ELSE <<"1">>)
    ELSE DecAddCarry(Front(a), Front(b), (DigitAt(a) + DigitAt(b) + carry) \div 10)
             \o <<DigitChars[((DigitAt(a) + DigitAt(b) + carry) % 10) + 1]>>

RECURSIVE DecTimesDigit(_, _, _)
DecTimesDigit(a, d, carry) ==
    IF a = <<>> THEN (IF carry = 0 THEN <<>> ELSE <<DigitChars[carry + 1]>>)
    ELSE DecTimesDigit(Front(a), d, (DigitAt(a) * d + carry) \div 10)
             \o <<DigitChars[((DigitAt(a) * d + carry) % 10) + 1]>>

RECURSIVE DecTimes(_, _)
DecTimes(a, b) ==
    IF b = <<>> THEN <<>>
    ELSE DecAddCarry(DecTimes(a, Front(b)) \o <<"0">>, DecTimesDigit(a, DigitAt(b), 0), 0)

\* a * b
DecMul(a, b) == DecNorm(DecTimes(a, b))

\* the number written after the last occurrence of a keyword, up to the next space
NumberAfter(text, kw) ==
    IF rfind(text, kw) = 0 THEN <<>>
    ELSE first_word(SubSeq(text, rfind(text, kw) + Len(kw), Len(text)))

\* the select of a call: the last statement it sent
SelectOf(out) == out.issued[Len(out.issued)]

\* a page that was asked for with u32 numbers
IsWidePage == res.op = "get_table_data_u32"

\* the LIMIT a call is to send: per_page + 1 (the command function: per_page)
ExactLimit(impl, per_page) ==
    IF impl = "command" THEN u32_to_string(per_page) ELSE DecSucc(u32_to_string(per_page))

\* the OFFSET a call is to send: (page - 1) * per_page
ExactOffset(page, per_page) == DecMul(DecPred(u32_to_string(page)), u32_to_string(per_page))

\* C26: for every 32-bit page and per_page the emitted LIMIT is exactly
\* per_page + 1 and the emitted OFFSET exactly (page - 1) * per_page as
\* mathematical integers; nothing wraps around modulo 2^32, no call is aborted,
\* and page = 0 never yields a wrapped offset.
C26_ExactPaging ==
    IsWidePage =>
        /\ ~res.out.panicked
        /\ res.req.page # u32(0)
               => /\ res.out.issued # <<>>
                  /\ NumberAfter(SelectOf(res.out), T_LIMIT_KW)
                         = ExactLimit(res.impl, res.req.per_page)
                  /\ NumberAfter(SelectOf(res.out), T_OFFSET_KW)
                         = ExactOffset(res.req.page, res.req.per_page)
        /\ (res.req.page = u32(0) /\ res.out.issued # <<>>)
               => NumberAfter(SelectOf(res.out), T_OFFSET_KW) = <<"0">>

\* page 65537 of pages of 65535 rows: the offset 4294901760 went out exactly
C26_Witness ==
    /\ IsWidePage /\ res.impl \in Engines /\ res.out.ok
    /\ res.req.page = u32(65537) /\ res.req.per_page = u32(65535)
    /\ NumberAfter(SelectOf(res.out), T_LIMIT_KW) = <<"6","5","5","3","6">>
    /\ NumberAfter(SelectOf(res.out), T_OFFSET_KW) = <<"4","2","9","4","9","0","1","7","6","0">>
    /\ ExactOffset(res.req.page, res.req.per_page) = <<"4","2","9","4","9","0","1","7","6","0">>

(***************************************************************************)
(* Credential resolution: connect_database of db_tool_commands.rs.  The    *)
(* project store holds, per project id, the location of the project and    *)
(* the stored credentials blob (db_config); the location may hold a .env   *)
(* file and a .workshop/project.json.                                      *)
(***************************************************************************)
K_DB_CONNECTION == <<"D","B","_","C","O","N","N","E","C","T","I","O","N">>
K_DB_HOST == <<"D","B","_","H","O","S","T">>
K_DB_PORT == <<"D","B","_","P","O","R","T">>
K_DB_DATABASE == <<"D","B","_","D","A","T","A","B","A","S","E">>
K_DB_USERNAME == <<"D","B","_","U","S","E","R","N","A","M","E">>
K_DB_PASSWORD == <<"D","B","_","P","A","S","S","W","O","R","D">>
T_mysql == <<"m","y","s","q","l">>
T_sqlite == <<"s","q","l","i","t","e">>

\* db_tool_commands.rs 76-78: the lines that are neither blank nor comments
env_line_kept(line) == ~trim_is_empty(line) /\ ~(line # <<>> /\ line[1] = "#")

\* db_tool_commands.rs 79-81: line.split_once('=') with both sides trimmed
env_line_key(line) == trim(SubSeq(line, 1, find(line, <<"=">>) - 1))
env_line_value(line) == trim(SubSeq(line, find(line, <<"=">>) + 1, Len(line)))

env_lines_of(env_content, key) ==
    { i \in DOMAIN env_content :
        /\ env_line_kept(env_content[i])
        /\ find(env_content[i], <<"=">>) # 0
        /\ env_line_key(env_content[i]) = key }


\* db_tool_commands.rs 84-85: env_vars.get(key); a later line replaces an earlier one
get_env(env_content, key) ==
    IF env_lines_of(env_content, key) = {} THEN None
    ELSE Some(env_line_value(env_content[Max(env_lines_of(env_content, key))]))

Pool(source, host, port, database, username, password) ==
    [ source |-> source, connection |-> T_mysql, host |-> host, port |-> port,
      database |-> database, username |-> username, password |-> password ]

NoPool == Pool("", <<>>, <<>>, <<>>, <<>>, <<>>)

ConnectErr(err) == [ok |-> FALSE, err |-> err, pool |-> NoPool]

\* db_tool_commands.rs 139-150: port.parse::<u16>(), then Pool::new
parses_as_u16(t) ==
    /\ IsDigits(strip_plus(t)) /\ Len(strip_plus(t)) <= 9
    /\ parse_nat(strip_plus(t)) <= 65535

connect_pool(pool) ==
    IF parses_as_u16(pool.port) THEN [ok |-> TRUE, err |-> "", pool |-> pool]
    ELSE ConnectErr("InvalidPort")

\* db_tool_commands.rs 87-104: the .env source
env_found(env) ==
    /\ env.some
    /\ get_env(env.v, K_DB_CONNECTION) = Some(T_mysql)
    /\ \A k \in {K_DB_HOST, K_DB_PORT, K_DB_DATABASE, K_DB_USERNAME, K_DB_PASSWORD} :
           get_env(env.v, k).some

env_pool(env) ==
    Pool("env", get_env(env.v, K_DB_HOST).v, get_env(env.v, K_DB_PORT).v,
         get_env(env.v, K_DB_DATABASE).v, get_env(env.v, K_DB_USERNAME).v,
         get_env(env.v, K_DB_PASSWORD).v)

\* db_config["field"].as_str().unwrap_or("")
as_str_or_empty(field) == IF field.some THEN field.v ELSE <<>>

\* db_tool_commands.rs 109-129: the .workshop/project.json source
json_found(json) ==
    /\ json.some /\ json.v.database.some
    /\ as_str_or_empty(json.v.database.v.connection) = T_mysql
    /\ as_str_or_empty(json.v.database.v.host) # <<>>
    /\ as_str_or_empty(json.v.database.v.database) # <<>>
    /\ as_str_or_empty(json.v.database.v.username) # <<>>

json_pool(db_config) ==
    Pool("project_json", as_str_or_empty(db_config.host), as_str_or_empty(db_config.port),
         as_str_or_empty(db_config.database), as_str_or_empty(db_config.username),
         as_str_or_empty(db_config.password))

\* db_tool_commands.rs 72-73 / 113-114: the files opened, in order; a file that
\* does not exist is not read, and project.json only when the .env gave nothing
files_read(known, env, json) ==
    IF ~known THEN <<>>
    ELSE (IF env.some THEN <<".env">> ELSE <<>>)
             \o (IF ~env_found(env) /\ json.some THEN <<"project.json">> ELSE <<>>)

\* connect_database without the return of lines 134-136
connect_database_unchecked(known, blob, env, json) ==
    IF ~known THEN ConnectErr("ProjectNotFound")
    ELSE IF env_found(env) THEN connect_pool(env_pool(env))
    ELSE IF json_found(json) THEN connect_pool(json_pool(json.v.database.v))
    ELSE connect_pool(NoPool)

\* db_tool_commands.rs 46-153
connect_database(known, blob, env, json) ==
    IF ~known THEN ConnectErr("ProjectNotFound")
    ELSE IF env_found(env) THEN connect_pool(env_pool(env))
    ELSE IF json_found(json) THEN connect_pool(json_pool(json.v.database.v))
    ELSE ConnectErr("CredentialsNotFound")

(***************************************************************************)
(* Resolving credentials: one connect_database on a project's files.       *)
(***************************************************************************)
E_mysql ==
    <<<<"D","B","_","C","O","N","N","E","C","T","I","O","N","=","m","y","s","q","l">>,
       <<"D","B","_","H","O","S","T","=","h">>,
       <<"D","B","_","P","O","R","T","=","3","3","0","6">>,
       <<"D","B","_","D","A","T","A","B","A","S","E","=","d">>,
       <<"D","B","_","U","S","E","R","N","A","M","E","=","u">>,
       <<"D","B","_","P","A","S","S","W","O","R","D","=","p">>>>
E_mysql_no_password ==
    <<<<"D","B","_","C","O","N","N","E","C","T","I","O","N","=","m","y","s","q","l">>,
       <<"D","B","_","H","O","S","T","=","h">>,
       <<"D","B","_","P","O","R","T","=","3","3","0","6">>,
       <<"D","B","_","D","A","T","A","B","A","S","E","=","d">>,
       <<"D","B","_","U","S","E","R","N","A","M","E","=","u">>>>
E_sqlite ==
    <<<<"D","B","_","C","O","N","N","E","C","T","I","O","N","=","s","q","l","i","t","e">>,
       <<"D","B","_","D","A","T","A","B","A","S","E","=","a","p","p",".","d","b">>>>
E_commented ==
    <<<<"#"," ","D","B","_","C","O","N","N","E","C","T","I","O","N","=","s","q","l","i","t","e">>,
       <<>>,
       <<" ","D","B","_","C","O","N","N","E","C","T","I","O","N"," ","="," ","m","y","s","q","l"," ">>,
       <<"D","B","_","H","O","S","T","=","a">>,
       <<"D","B","_","H","O","S","T","=","h">>,
       <<"D","B","_","P","O","R","T","=","9","9","9","9","9">>,
       <<"D","B","_","D","A","T","A","B","A","S","E","=","d">>,
       <<"D","B","_","U","S","E","R","N","A","M","E","=","u">>,
       <<"D","B","_","P","A","S","S","W","O","R","D","=">>>>
E_other ==
    <<<<"A","P","P","_","N","A","M","E","=","s","h","o","p">>>>
\* values between double quotes, as dotenv files write them
E_quoted ==
    <<<<"D","B","_","C","O","N","N","E","C","T","I","O","N","=","m","y","s","q","l">>,
       <<"D","B","_","H","O","S","T","=","\"","h","\"">>,
       <<"D","B","_","P","O","R","T","=","3","3","0","6">>,
       <<"D","B","_","D","A","T","A","B","A","S","E","=","d">>,
       <<"D","B","_","U","S","E","R","N","A","M","E","=","u">>,
       <<"D","B","_","P","A","S","S","W","O","R","D","=","\"","p"," ","#","\"">>>>

EnvFiles == {None, Some(E_mysql), Some(E_mysql_no_password), Some(E_sqlite),
             Some(E_commented), Some(E_other), Some(E_quoted)}

\* the stored blob: models/db_types.rs DbCredentials
Blob(connection, host, port, database, username, password) ==
    [ connection |-> connection, host |-> host, port |-> port, database |-> database,
      username |-> username, password |-> password ]

B_sqlite == Blob(T_sqlite, None, None, <<"a","p","p",".","d","b">>, None, None)
B_mysql == Blob(T_mysql, Some(<<"b">>), Some(<<"3","3","0","7">>), <<"d">>, Some(<<"u">>), Some(<<"p">>))

Blobs == {None, Some(B_sqlite), Some(B_mysql)}

DbConfig(connection, host, port, database, username, password) ==
    [ connection |-> connection, host |-> host, port |-> port, database |-> database,
      username |-> username, password |-> password ]

J_mysql == DbConfig(Some(T_mysql), Some(<<"j">>), Some(<<"3","3","0","6">>), Some(<<"d">>), Some(<<"u">>), Some(<<"p">>))
J_mysql_no_port == DbConfig(Some(T_mysql), Some(<<"j">>), None, Some(<<"d">>), Some(<<"u">>), None)
J_mysql_no_host == DbConfig(Some(T_mysql), None, Some(<<"3","3","0","6">>), Some(<<"d">>), Some(<<"u">>), Some(<<"p">>))
J_mysql_no_password == DbConfig(Some(T_mysql), Some(<<"j">>), Some(<<"3","3","0","6">>), Some(<<"d">>), Some(<<"u">>), None)
J_sqlite == DbConfig(Some(T_sqlite), None, None, Some(<<"a","p","p",".","d","b">>), None, None)

Json(database) == [database |-> database]

JsonFiles == {None, Some(Json(None)), Some(Json(Some(J_mysql))), Some(Json(Some(J_mysql_no_port))),
              Some(Json(Some(J_mysql_no_host))), Some(Json(Some(J_sqlite))),
              Some(Json(Some(J_mysql_no_password)))}

ConnectReqs == [known : BOOLEAN, blob : Blobs, env : EnvFiles, json : JsonFiles]

CallConnectDatabase ==
    /\ res.op = "none"
    /\ \E r \in ConnectReqs :
          res' = [ op |-> "connect_database", req |-> r,
                   out |-> connect_database(r.known, r.blob, r.env, r.json),
                   read |-> files_read(r.known, r.env, r.json) ]
    /\ UNCHANGED <<profile, table>>
    /\ UNCHANGED cache_vars
    /\ UNCHANGED project_vars

InitCreds ==
    /\ CacheAtStart
    /\ ProjectsAtStart
    /\ profile = "release"
    /\ table = <<>>
    /\ res = NoCall

NextCreds == CallConnectDatabase

SpecCreds == InitCreds /\ [][NextCreds]_vars

(***************************************************************************)
(* Properties of credential resolution.                                    *)
(***************************************************************************)
IsResolved == res.op = "connect_database" /\ res.req.known

\* the credentials a connection was opened with, in the shape of the stored blob
ResolvedAs(pool) ==
    Blob(pool.connection, Some(pool.host), Some(pool.port), pool.database,
         Some(pool.username), Some(pool.password))

\* C5: the sources are consulted in the order .env, stored blob, project.json and the
\* first that yields credentials wins: a valid mysql .env wins over a stored sqlite
\* blob, and without a usable .env a stored blob wins over a legacy project.json.
C5_Cascade ==
    IsResolved =>
        /\ (env_found(res.req.env) /\ res.req.blob = Some(B_sqlite))
               => res.out.pool.source = "env"
        /\ (res.req.env = None /\ res.req.blob.some)
               => res.out.ok /\ ResolvedAs(res.out.pool) = res.req.blob.v

\* a valid mysql .env was chosen although a sqlite blob is stored
C5_Witness ==
    /\ IsResolved /\ env_found(res.req.env) /\ res.req.blob = Some(B_sqlite)
    /\ res.out.ok /\ res.out.pool.source = "env" /\ res.out.pool.host = <<"h">>

\* the .env source of the cascade yields credentials: a client/server record
\* with its five keys, or an embedded record with DB_DATABASE
EnvYields(env) ==
    /\ env.some
    /\ \/ /\ get_env(env.v, K_DB_CONNECTION) = Some(T_mysql)
          /\ \A k \in {K_DB_HOST, K_DB_PORT, K_DB_DATABASE, K_DB_USERNAME, K_DB_PASSWORD} :
                 get_env(env.v, k).some
       \/ /\ get_env(env.v, K_DB_CONNECTION) = Some(T_sqlite)
          /\ get_env(env.v, K_DB_DATABASE).some

\* the legacy file yields credentials: a database record with connection mysql
JsonYields(json) ==
    json.some /\ json.v.database.some /\ json.v.database.v.connection = Some(T_mysql)

NoSourceYields(req) == ~EnvYields(req.env) /\ ~req.blob.some /\ ~JsonYields(req.json)

\* C17: when no source of the cascade yields credentials the resolution returns
\* CredentialsNotFound, opens no connection and caches no Backend; when the
\* project id is unknown the operation fails with ProjectNotFound before any
\* configuration file is read.
C17_NotFound ==
    res.op = "connect_database" =>
        /\ ~res.req.known
              => /\ ~res.out.ok /\ res.out.err = "ProjectNotFound"
                 /\ res.read = <<>> /\ res.out.pool = NoPool
        /\ (res.req.known /\ NoSourceYields(res.req))
              => /\ ~res.out.ok /\ res.out.err = "CredentialsNotFound"
                 /\ res.out.pool = NoPool
                 /\ \A p \in Projects : connections[p] = NoBackend

\* both files of a known project were read and neither gave credentials
C17_Witness ==
    /\ res.op = "connect_database" /\ res.req.known /\ NoSourceYields(res.req)
    /\ res.read = <<".env", "project.json">>
    /\ res.out.err = "CredentialsNotFound" /\ res.out.pool = NoPool

\* a value without one layer of matching double quotes around it
Unquoted(value) ==
    IF Len(value) >= 2 /\ value[1] = "\"" /\ value[Len(value)] = "\""
    THEN SubSeq(value, 2, Len(value) - 1)
    ELSE value

\* the value of a key of the .env as the specification reads it
EnvValue(env, key) == Unquoted(get_env(env.v, key).v)

EnvIsMysql(env) ==
    /\ env.some /\ get_env(env.v, K_DB_CONNECTION).some
    /\ EnvValue(env, K_DB_CONNECTION) = T_mysql
    /\ \A k \in {K_DB_HOST, K_DB_PORT, K_DB_DATABASE, K_DB_USERNAME, K_DB_PASSWORD} :
           get_env(env.v, k).some

EnvIsSqlite(env) ==
    /\ env.some /\ get_env(env.v, K_DB_CONNECTION).some
    /\ EnvValue(env, K_DB_CONNECTION) = T_sqlite
    /\ get_env(env.v, K_DB_DATABASE).some

\* the resolution used the client/server credentials of the .env, unquoted
FromEnvMysql(out, env) ==
    /\ out.ok \/ out.err = "InvalidPort"
    /\ out.ok => /\ out.pool.source = "env" /\ out.pool.connection = T_mysql
                 /\ out.pool.host = EnvValue(env, K_DB_HOST)
                 /\ out.pool.port = EnvValue(env, K_DB_PORT)
                 /\ out.pool.database = EnvValue(env, K_DB_DATABASE)
                 /\ out.pool.username = EnvValue(env, K_DB_USERNAME)
                 /\ out.pool.password = EnvValue(env, K_DB_PASSWORD)

\* the resolution used the embedded credentials of the .env
FromEnvSqlite(out, env) ==
    /\ out.ok /\ out.pool.source = "env" /\ out.pool.connection = T_sqlite
    /\ out.pool.database = EnvValue(env, K_DB_DATABASE)

\* C23: the .env is read as KEY=VALUE lines, blank lines and # lines skipped, one
\* layer of matching double quotes taken off each value; DB_CONNECTION=mysql with
\* all five keys yields client/server credentials equal to the unquoted values,
\* DB_CONNECTION=sqlite with DB_DATABASE yields embedded credentials, and in
\* every other case the resolution falls through to the next source.
C23_EnvSource ==
    IsResolved =>
        /\ EnvIsMysql(res.req.env) => FromEnvMysql(res.out, res.req.env)
        /\ EnvIsSqlite(res.req.env) => FromEnvSqlite(res.out, res.req.env)
        /\ (~EnvIsMysql(res.req.env) /\ ~EnvIsSqlite(res.req.env))
               => res.out.pool.source # "env"

\* an .env without quotes around its values gave the five values as they stand
C23_Witness ==
    /\ IsResolved /\ res.req.env = Some(E_mysql) /\ res.out.ok
    /\ res.out.pool = Pool("env", <<"h">>, <<"3","3","0","6">>, <<"d">>, <<"u">>, <<"p">>)
    /\ FromEnvMysql(res.out, res.req.env)

\* a resolution that has only the legacy file to go by
IsLegacyOnly == IsResolved /\ ~EnvYields(res.req.env) /\ ~res.req.blob.some

\* a field of the database object by name, the empty string when it is absent
FieldOrEmpty(db_config, name) == IF db_config[name].some THEN db_config[name].v ELSE <<>>

\* the credentials of the legacy record were yielded: the resolution went on to
\* connect with them
FromLegacy(out, db_config) ==
    /\ out.ok \/ out.err = "InvalidPort"
    /\ out.ok => /\ out.pool.source = "project_json"
                 /\ \A name \in {"host", "port", "database", "username", "password"} :
                        out.pool[name] = FieldOrEmpty(db_config, name)

\* C24: .workshop/project.json yields credentials exactly when its database object
\* has connection = "mysql"; host, port, database, username and password are taken
\* by name, an absent field as the empty string, and a record that lacks some of
\* them is still accepted; a record with another connection is never accepted.
C24_LegacySource ==
    IsLegacyOnly =>
        IF JsonYields(res.req.json)
        THEN FromLegacy(res.out, res.req.json.v.database.v)
        ELSE ~res.out.ok /\ res.out.err = "CredentialsNotFound"

\* a mysql record without a password was accepted, the password being empty
C24_Witness ==
    /\ IsLegacyOnly /\ res.req.json = Some(Json(Some(J_mysql_no_password)))
    /\ res.out.ok /\ res.out.pool.source = "project_json"
    /\ res.out.pool.password = <<>> /\ res.out.pool.host = <<"j">>

(***************************************************************************)
(* Listing tables: Backend::get_tables.  The schema of the target database *)
(* is the list of its objects (type, name) in the order of the engine's    *)
(* catalog: sqlite_master for the embedded engine, the default schema for  *)
(* the client/server engine, whose own catalog lives in other schemas.     *)
(***************************************************************************)
T_sqlite_sequence == <<"s","q","l","i","t","e","_","s","e","q","u","e","n","c","e">>
T_sqlite_stat1 == <<"s","q","l","i","t","e","_","s","t","a","t","1">>
T_sqlitex == <<"s","q","l","i","t","e","x">>
T_Sqlite3_log == <<"S","q","l","i","t","e","3","_","l","o","g">>
T_users == <<"u","s","e","r","s">>
T_v_users == <<"v","_","u","s","e","r","s">>
T_idx_users == <<"i","d","x","_","u","s","e","r","s">>
T_sqlite_pattern == <<"s","q","l","i","t","e","_","%">>

Object(type, name) == [type |-> type, name |-> name]

\* the operator LIKE of the embedded engine: _ stands for any one character, %
\* for any run of characters, letters match without regard to case
RECURSIVE Like(_, _)
Like(s, pattern) ==
    IF pattern = <<>> THEN s = <<>>
    ELSE IF pattern[1] = "%"
    THEN Like(s, Tail(pattern)) \/ (s # <<>> /\ Like(Tail(s), pattern))
    ELSE /\ s # <<>>
         /\ pattern[1] = "_" \/ char_to_uppercase(pattern[1]) = char_to_uppercase(s[1])
         /\ Like(Tail(s), Tail(pattern))

NamesOf(objects) == [i \in DOMAIN objects |-> objects[i].name]

\* SELECT name FROM sqlite_master WHERE type='table' AND name NOT LIKE <pattern>
MasterTablesNotLike(schema, pattern) ==
    LET Keep(o) == o.type = "table" /\ ~Like(o.name, pattern)
    IN NamesOf(SelectSeq(schema, Keep))

\* SHOW TABLES: the tables and views of the default schema
ShowTables(schema) ==
    LET Keep(o) == o.type \in {"table", "view"} IN NamesOf(SelectSeq(schema, Keep))

TablesOk(tables) == [ok |-> TRUE, tables |-> tables]

\* db_factory.rs 90-94
MySqlBackend_get_tables(schema) == TablesOk(ShowTables(schema))

\* db_factory.rs 373-389
SqliteBackend_get_tables(schema) == TablesOk(MasterTablesNotLike(schema, T_sqlite_pattern))

AllObjects ==
    << Object("table", T_users), Object("table", T_sqlite_sequence), Object("index", T_idx_users),
       Object("table", T_sqlitex), Object("view", T_v_users), Object("table", T_Sqlite3_log),
       Object("table", T_sqlite_stat1) >>

\* the objects of AllObjects at the places of S, in their order
SchemaOf(S) ==
    LET Keep(o) == \E i \in S : AllObjects[i] = o IN SelectSeq(AllObjects, Keep)

\* the names the embedded engine keeps for itself: sqlite_ in any case, which no
\* user table can take; the client/server engine keeps none in a user's schema
IsSystemTable(engine, name) ==
    /\ engine = "sqlite"
    /\ Len(name) >= 7
    /\ to_uppercase(SubSeq(name, 1, 7)) = <<"S","Q","L","I","T","E","_">>

Schemas(engine) ==
    { SchemaOf(S) : S \in { S \in SUBSET DOMAIN AllObjects :
          \A i \in S : engine = "mysql" => ~IsSystemTable("sqlite", AllObjects[i].name) } }

CallMySqlGetTables ==
    /\ res.op = "none"
    /\ \E schema \in Schemas("mysql") :
          res' = [ op |-> "get_tables", impl |-> "mysql", req |-> [schema |-> schema],
                   out |-> MySqlBackend_get_tables(schema) ]
    /\ UNCHANGED <<profile, table>>
    /\ UNCHANGED cache_vars
    /\ UNCHANGED project_vars

CallSqliteGetTables ==
    /\ res.op = "none"
    /\ \E schema \in Schemas("sqlite") :
          res' = [ op |-> "get_tables", impl |-> "sqlite", req |-> [schema |-> schema],
                   out |-> SqliteBackend_get_tables(schema) ]
    /\ UNCHANGED <<profile, table>>
    /\ UNCHANGED cache_vars
    /\ UNCHANGED project_vars

InitTables ==
    /\ CacheAtStart
    /\ ProjectsAtStart
    /\ profile = "release"
    /\ table = <<>>
    /\ res = NoCall

NextTables == CallMySqlGetTables \/ CallSqliteGetTables

SpecTables == InitTables /\ [][NextTables]_vars

(***************************************************************************)
(* Properties of listing tables.                                           *)
(***************************************************************************)
IsListing == res.op = "get_tables" /\ res.out.ok

UserTables(engine, schema) ==
    LET Keep(o) == o.type = "table" /\ ~IsSystemTable(engine, o.name)
    IN NamesOf(SelectSeq(schema, Keep))

\* C25: list_tables returns every user table of the target database and no table
\* of the engine's own catalog; on the embedded engine a table is left out if and
\* only if it is a system table, so a user table whose name begins with the
\* letters sqlite and another character is listed.
C25_UserTablesListed ==
    IsListing =>
        \A i \in DOMAIN res.req.schema :
            res.req.schema[i].type = "table"
                => (res.req.schema[i].name \in Range(res.out.tables)
                        <=> ~IsSystemTable(res.impl, res.req.schema[i].name))

\* the embedded engine listed the user table and left out its two system tables
C25_Witness ==
    /\ IsListing /\ res.impl = "sqlite"
    /\ UserTables("sqlite", res.req.schema) = <<T_users>>
    /\ Len(res.req.schema) = 5
    /\ res.out.tables = <<T_users>>

(***************************************************************************)
(* Inspector operations through the connection map.  An operation locks    *)
(* the map, looks its project up (constructing the Backend on a miss),     *)
(* calls the Backend and returns.  The map owns each Backend in a Box and  *)
(* every method of DbBackend takes &mut self, so the reference an          *)
(* operation calls its Backend through is borrowed from the MutexGuard.    *)
(***************************************************************************)
InitialCredentials == {Credentials("mysql", 0), Credentials("sqlite", 0), Credentials("pgsql", 0)}

\* the lock with the guard given up before the statement runs
lock_released_for_statement(w) == 0

\* state.rs 7-9, db_factory.rs 8-38: the guard lives as long as the &mut to the Backend
lock_during_statement(w) == w

NextId == 1 + built.total

Begin(w) ==
    /\ workers[w].pc = "idle"
    /\ budget.ops < MaxOps
    /\ \E p \in Projects :
          workers' = [workers EXCEPT ![w] = [Idle EXCEPT !.pc = "waiting", !.project = p,
                                                         !.rev = stored[p].rev]]
    /\ budget' = [budget EXCEPT !.ops = @ + 1]
    /\ UNCHANGED <<project_vars, profile, table, res, stored, connections, lock, built>>

Lock(w) ==
    /\ workers[w].pc = "waiting"
    /\ lock = 0
    /\ lock' = w
    /\ workers' = [workers EXCEPT ![w].pc = "locked"]
    /\ UNCHANGED <<project_vars, profile, table, res, stored, connections, built, budget>>

\* a hit returns the entry; a miss constructs the Backend of the resolved credentials
Inserted(w, p, made) ==
    IF made.ok
    THEN /\ connections' = [connections EXCEPT ![p] = Backend(NextId, made.kind, p, stored[p])]
         /\ built' = [built EXCEPT !.since[p] = @ + 1, !.total = @ + 1]
         /\ workers' = [workers EXCEPT ![w].pc = "holding", ![w].backend = NextId]
         /\ lock' = lock
    ELSE /\ workers' = [workers EXCEPT ![w] = Idle]
         /\ lock' = 0
         /\ UNCHANGED <<connections, built>>

GetOrCreate(w) ==
    /\ workers[w].pc = "locked"
    /\ IF connections[workers[w].project] # NoBackend
       THEN /\ workers' = [workers EXCEPT ![w].pc = "holding", ![w].hit = TRUE,
                                          ![w].backend = connections[workers[w].project].id]
            /\ UNCHANGED <<connections, built, lock>>
       ELSE Inserted(w, workers[w].project, get_db_backend(stored[workers[w].project]))
    /\ UNCHANGED <<project_vars, profile, table, res, stored, budget>>

\* the Backend's statement starts
Execute(w) ==
    /\ workers[w].pc = "holding"
    /\ workers' = [workers EXCEPT ![w].pc = "executing"]
    /\ lock' = lock_during_statement(w)
    /\ UNCHANGED <<project_vars, profile, table, res, stored, connections, built, budget>>

\* the map after an operation on p that drops the entry of p when it failed
after_operation_evicting(p, failed) ==
    IF failed THEN [connections EXCEPT ![p] = NoBackend] ELSE connections

\* the map after an operation on p: the error of the Backend is returned to the
\* caller as it is, and the entry stays
after_operation(p, failed) == connections

\* the statement is over, with a result or with an error, and the operation
\* returns; built.failed[p] remembers the Backend whose operation failed
Finish(w) ==
    /\ workers[w].pc = "executing"
    /\ \E failed \in BOOLEAN :
          /\ connections' = after_operation(workers[w].project, failed)
          /\ built' = IF failed
                       THEN [built EXCEPT !.failed[workers[w].project] = workers[w].backend]
                       ELSE built
    /\ workers' = [workers EXCEPT ![w] = Idle]
    /\ lock' = IF lock = w THEN 0 ELSE lock
    /\ UNCHANGED <<project_vars, profile, table, res, stored, budget>>

\* db_tool_commands.rs 155-201: the credentials are written to project.json with
\* connection "mysql"; the map is not among the arguments
save_db_credentials(p) ==
    /\ budget.saves < MaxSaves
    /\ stored' = [stored EXCEPT ![p] = Credentials("mysql", @.rev + 1)]
    /\ budget' = [budget EXCEPT !.saves = @ + 1]
    /\ UNCHANGED <<project_vars, profile, table, res, connections, lock, workers, built>>

\* invalidate(project_id): the entry is removed under the lock
invalidate(p) ==
    /\ budget.invalidations < MaxInvalidations
    /\ lock = 0
    /\ connections' = [connections EXCEPT ![p] = NoBackend]
    /\ built' = [built EXCEPT !.since[p] = 0, !.failed[p] = 0]
    /\ budget' = [budget EXCEPT !.invalidations = @ + 1]
    /\ UNCHANGED <<project_vars, profile, table, res, stored, lock, workers>>

InitCache ==
    /\ ProjectsAtStart
    /\ profile = "release"
    /\ table = <<>>
    /\ res = NoCall
    /\ stored \in [Projects -> InitialCredentials]
    /\ connections = [p \in Projects |-> NoBackend]
    /\ lock = 0
    /\ workers = [w \in Threads |-> Idle]
    /\ built = [since |-> [p \in Projects |-> 0], total |-> 0,
                failed |-> [p \in Projects |-> 0]]
    /\ budget = [ops |-> 0, saves |-> 0, invalidations |-> 0]

NextCache ==
    \/ \E w \in Threads : Begin(w)
    \/ \E w \in Threads : Lock(w)
    \/ \E w \in Threads : GetOrCreate(w)
    \/ \E w \in Threads : Execute(w)
    \/ \E w \in Threads : Finish(w)
    \/ \E p \in Projects : save_db_credentials(p)
    \/ \E p \in Projects : invalidate(p)

SpecCache == InitCache /\ [][NextCache]_vars

(***************************************************************************)
(* Properties of the connection map.                                       *)
(***************************************************************************)
HasBackend(w) == workers[w].pc \in {"holding", "executing"}

KindOf(connection) == IF connection = "mysql" THEN "MySqlBackend" ELSE "SqliteBackend"

Backslash == "\\"

JNull == [type |-> "null", s |-> <<>>, members |-> <<>>]
JString(text) == [type |-> "string", s |-> text, members |-> <<>>]
JNumber(text) == [type |-> "number", s |-> text, members |-> <<>>]
JObject(members) == [type |-> "object", s |-> <<>>, members |-> members]
NotJson == [type |-> "invalid", s |-> <<>>, members |-> <<>>]

\* json!({ key: value })
Member(key, value) == [k \in {key} |-> value]

\* map.insert(key, value) of an object's map
insert(members, key, value) ==
    [k \in DOMAIN members \cup {key} |-> IF k = key THEN value ELSE members[k]]

\* serde_json writes " as \" and \ as \\ inside a string literal
RECURSIVE escape(_)
escape(text) ==
    IF text = <<>> THEN <<>>
    ELSE (IF text[1] \in {DoubleQuote, Backslash} THEN <<Backslash, text[1]>> ELSE <<text[1]>>)
             \o escape(Tail(text))

string_literal(text) == <<DoubleQuote>> \o escape(text) \o <<DoubleQuote>>

\* the body of a literal: every backslash escapes the next character, no bare quote
RECURSIVE escaped_ok(_)
escaped_ok(text) ==
    IF text = <<>> THEN TRUE
    ELSE IF text[1] = Backslash
         THEN Len(text) >= 2 /\ text[2] \in {DoubleQuote, Backslash}
                  /\ escaped_ok(SubSeq(text, 3, Len(text)))
    ELSE text[1] # DoubleQuote /\ escaped_ok(Tail(text))

RECURSIVE unescape(_)
unescape(text) ==
    IF text = <<>> THEN <<>>
    ELSE IF text[1] = Backslash /\ Len(text) >= 2
         THEN <<text[2]>> \o unescape(SubSeq(text, 3, Len(text)))
    ELSE <<text[1]>> \o unescape(Tail(text))

literal_ok(lit) ==
    /\ Len(lit) >= 2 /\ lit[1] = DoubleQuote /\ lit[Len(lit)] = DoubleQuote
    /\ escaped_ok(SubSeq(lit, 2, Len(lit) - 1))

\* serde_json::to_string_pretty
RECURSIVE to_string_pretty(_)
to_string_pretty(value) ==
    [ type |-> value.type,
      s |-> IF value.type = "string" THEN string_literal(value.s) ELSE value.s,
      members |-> [k \in DOMAIN value.members |-> to_string_pretty(value.members[k])] ]

\* the texts serde_json::from_str accepts
RECURSIVE is_json(_)
is_json(doc) ==
    /\ doc.type # "invalid"
    /\ doc.type = "string" => literal_ok(doc.s)
    /\ \A k \in DOMAIN doc.members : is_json(doc.members[k])

RECURSIVE parsed(_)
parsed(doc) ==
    [ type |-> doc.type,
      s |-> IF doc.type = "string" THEN unescape(SubSeq(doc.s, 2, Len(doc.s) - 1)) ELSE doc.s,
      members |-> [k \in DOMAIN doc.members |-> parsed(doc.members[k])] ]

\* serde_json::from_str::<Value>
from_str(doc) ==
    IF is_json(doc) THEN [ok |-> TRUE, v |-> parsed(doc)] ELSE [ok |-> FALSE, v |-> JNull]

\* value.get(key): the member of an object, None for what is not an object
get(value, key) ==
    IF value.type = "object" /\ key \in DOMAIN value.members THEN Some(value.members[key])
    ELSE None

\* value[key].as_str(): indexing what has no such member gives Null, which is no string
index_as_str(value, key) ==
    IF get(value, key).some /\ get(value, key).v.type = "string" THEN Some(get(value, key).v.s)
    ELSE None

\* value[key] = member (IndexMut): Null becomes an object, an object takes the
\* member, anything else panics
index_mut_panics(value) == value.type \notin {"null", "object"}

index_mut(value, key, member) ==
    IF value.type = "null" THEN JObject(Member(key, member))
    ELSE JObject(insert(value.members, key, member))

\* db_tool_commands.rs 110-122: project.json as connect_database reads it
read_db_config(value) ==
    DbConfig(index_as_str(value, "connection"), index_as_str(value, "host"),
             index_as_str(value, "port"), index_as_str(value, "database"),
             index_as_str(value, "username"), index_as_str(value, "password"))

read_project_json(file) ==
    IF ~file.exists THEN None
    ELSE IF ~from_str(file.doc).ok THEN Some(Json(None))
    ELSE IF ~get(from_str(file.doc).v, "database").some THEN Some(Json(None))
    ELSE Some(Json(Some(read_db_config(get(from_str(file.doc).v, "database").v))))

(***************************************************************************)
(* fs::write is File::create followed by write_all: the file is created or *)
(* truncated when it is opened, and filled afterwards.  In a location that *)
(* cannot be written the open fails and nothing changes; elsewhere the     *)
(* write either goes through or fails after the open (a full disk), which  *)
(* leaves an empty file.                                                   *)
(***************************************************************************)
write_outcomes(location) == IF location.writable THEN {"written", "truncated"} ELSE {"denied"}

fs_write(file, doc, outcome) ==
    CASE outcome = "written" -> File(doc)
      [] outcome = "truncated" -> File(NotJson)
      [] OTHER -> file

(***************************************************************************)
(* save_db_credentials of db_tool_commands.rs 155-201, one step for each   *)
(* access to the projects database or to the file system.                  *)
(***************************************************************************)
DbCredentials(host, port, database, username, password) ==
    [ host |-> host, port |-> port, database |-> database, username |-> username,
      password |-> password ]

\* db_tool_commands.rs 183-190
db_config_of(credentials) ==
    JObject([ k \in {"connection", "host", "port", "database", "username", "password"} |->
                JString(CASE k = "connection" -> T_mysql
                          [] k = "host" -> credentials.host
                          [] k = "port" -> credentials.port
                          [] k = "database" -> credentials.database
                          [] k = "username" -> credentials.username
                          [] OTHER -> credentials.password) ])

\* db_tool_commands.rs 174-180: serde_json::from_str(&content).unwrap_or(json!({}))
read_current_config(file) ==
    IF from_str(file.doc).ok THEN from_str(file.doc).v ELSE JObject(<<>>)

SaveReturns(out) == saving' = [saving EXCEPT !.pc = "done", !.out = out]

SaveGoes(pc) == saving' = [saving EXCEPT !.pc = pc]

\* the frontend invokes the command
CallSaveDbCredentials(project_id, credentials) ==
    /\ saving.pc = "idle" /\ saving.calls < MaxSaves
    /\ saving' = [ NotSaving EXCEPT !.pc = "lookup", !.project_id = project_id,
                                    !.credentials = credentials,
                                    !.before = disk[project_id].json,
                                    !.calls = saving.calls + 1 ]
    /\ UNCHANGED <<projects, disk, channel, setup>>
    /\ UNCHANGED <<profile, table, res>>
    /\ UNCHANGED cache_vars

\* db_tool_commands.rs 158-165: db.get_project_by_id; the projects database is
\* the one create_project inserted the row into
SaveLookup ==
    /\ saving.pc = "lookup"
    /\ IF saving.project_id \in projects.rows THEN SaveGoes("dir")
       ELSE SaveReturns("ProjectNotFound")
    /\ UNCHANGED <<projects, disk, channel, setup>>
    /\ UNCHANGED <<profile, table, res>>
    /\ UNCHANGED cache_vars

\* db_tool_commands.rs 167-168: workshop_dir.exists()
SaveCheckDir ==
    /\ saving.pc = "dir"
    /\ IF disk[saving.project_id].workshop THEN SaveGoes("exists") ELSE SaveGoes("create_dir")
    /\ UNCHANGED <<projects, disk, channel, setup>>
    /\ UNCHANGED <<profile, table, res>>
    /\ UNCHANGED cache_vars

\* db_tool_commands.rs 169-170: fs::create_dir fails where it may not write, and
\* on a directory that is there by now
SaveCreateDir ==
    /\ saving.pc = "create_dir"
    /\ IF disk[saving.project_id].writable /\ ~disk[saving.project_id].workshop
       THEN /\ disk' = [disk EXCEPT ![saving.project_id].workshop = TRUE]
            /\ SaveGoes("exists")
       ELSE /\ SaveReturns("CreateDirFailed")
            /\ UNCHANGED disk
    /\ UNCHANGED <<projects, channel, setup>>
    /\ UNCHANGED <<profile, table, res>>
    /\ UNCHANGED cache_vars

\* db_tool_commands.rs 175 and 181: project_json_path.exists(), json!({}) if not
SaveCheckFile ==
    /\ saving.pc = "exists"
    /\ IF disk[saving.project_id].json.exists THEN SaveGoes("read")
       ELSE saving' = [saving EXCEPT !.pc = "write", !.current_config = JObject(<<>>)]
    /\ UNCHANGED <<projects, disk, channel, setup>>
    /\ UNCHANGED <<profile, table, res>>
    /\ UNCHANGED cache_vars

\* db_tool_commands.rs 176-179: fs::read_to_string, then from_str
SaveRead ==
    /\ saving.pc = "read"
    /\ saving' = [saving EXCEPT !.pc = "write",
                                !.current_config = read_current_config(disk[saving.project_id].json)]
    /\ UNCHANGED <<projects, disk, channel, setup>>
    /\ UNCHANGED <<profile, table, res>>
    /\ UNCHANGED cache_vars

\* db_tool_commands.rs 192: current_config["database"] = db_config
config_to_write(current_config, credentials) ==
    index_mut(current_config, "database", db_config_of(credentials))

\* db_tool_commands.rs 192-198: the member is set, the file written
SaveWrite ==
    /\ saving.pc = "write"
    /\ IF index_mut_panics(saving.current_config)
       THEN /\ SaveReturns("panicked")
            /\ UNCHANGED disk
       ELSE \E outcome \in write_outcomes(disk[saving.project_id]) :
               /\ disk' = [disk EXCEPT ![saving.project_id].json =
                              fs_write(@, to_string_pretty(config_to_write(saving.current_config,
                                                                           saving.credentials)),
                                       outcome)]
               /\ SaveReturns(IF outcome = "written" THEN "Ok" ELSE "WriteFailed")
    /\ UNCHANGED <<projects, channel, setup>>
    /\ UNCHANGED <<profile, table, res>>
    /\ UNCHANGED cache_vars

\* the command thread is free for the next call
SaveDone ==
    /\ saving.pc = "done"
    /\ saving' = [NotSaving EXCEPT !.calls = saving.calls]
    /\ UNCHANGED <<projects, disk, channel, setup>>
    /\ UNCHANGED <<profile, table, res>>
    /\ UNCHANGED cache_vars

SaveStep ==
    \/ SaveLookup \/ SaveCheckDir \/ SaveCreateDir \/ SaveCheckFile
    \/ SaveRead \/ SaveWrite \/ SaveDone

(***************************************************************************)
(* Saving credentials into a location of any prior content, and resolving  *)
(* the credentials of the project afterwards.                              *)
(***************************************************************************)
T_Laravel == <<"L","a","r","a","v","e","l">>
T_Unknown == <<"U","n","k","n","o","w","n">>

\* the file as setup_project writes it
P_type == JObject(Member("project_type", JString(T_Laravel)))

\* a file with members of every kind, and credentials saved earlier
P_full ==
    JObject([ k \in {"project_type", "theme", "window", "editor", "database"} |->
                CASE k = "project_type" -> JString(T_Unknown)
                  [] k = "theme" -> JString(<<"d", DoubleQuote, "k", Backslash>>)
                  [] k = "window" -> JNumber(<<"2">>)
                  [] k = "editor" -> JObject(Member("tabs", JNull))
                  [] OTHER -> JObject(Member("connection", JString(T_sqlite))) ])

PriorValues == {JObject(<<>>), P_type, P_full, JNull, JString(<<"x">>)}

PriorFiles == {NoFile, File(NotJson)} \cup {File(to_string_pretty(value)) : value \in PriorValues}

PriorLocations ==
    { l \in [ writable : BOOLEAN, composer : {"absent"}, workshop : BOOLEAN, json : PriorFiles ] :
        l.json.exists => l.workshop }

C_full == DbCredentials(<<"h">>, <<"3","3","0","6">>, <<"d">>, <<"u">>, <<"p">>)
C_escaped == DbCredentials(<<"h">>, <<"3","3","0","6">>, <<"d">>, <<"u">>, <<Backslash, "p", DoubleQuote>>)
C_no_password == DbCredentials(<<"h">>, <<"3","3","0","6">>, <<"d">>, <<"u">>, <<>>)
C_no_host == DbCredentials(<<>>, <<"3","3","0","6">>, <<"d">>, <<"u">>, <<"p">>)
C_no_username == DbCredentials(<<"h">>, <<"3","3","0","6">>, <<"d">>, <<>>, <<>>)

SavedCredentials == {C_full, C_escaped, C_no_password, C_no_host, C_no_username}

ResolveEnvs == {None, Some(E_other), Some(E_mysql_no_password), Some(E_mysql)}

\* connect_database on the files of the project as they are now
CallResolve ==
    /\ res.op = "none"
    /\ \E project_id \in ProjectIds, env \in ResolveEnvs :
          res' = [ op |-> "connect_database",
                   req |-> [ known |-> project_id \in projects.rows, blob |-> None, env |-> env,
                             json |-> read_project_json(disk[project_id].json) ],
                   out |-> connect_database(project_id \in projects.rows, None, env,
                                            read_project_json(disk[project_id].json)),
                   project_id |-> project_id, saved |-> saving ]
    /\ UNCHANGED <<profile, table>>
    /\ UNCHANGED cache_vars
    /\ UNCHANGED project_vars

InitSave ==
    /\ CacheAtStart
    /\ profile = "release"
    /\ table = <<>>
    /\ res = NoCall
    /\ projects = [rows |-> {1}, next |-> 2]
    /\ disk \in {[i \in ProjectIds |-> IF i = 1 THEN l ELSE NoLocation] : l \in PriorLocations}
    /\ channel = [queue |-> <<>>, sent |-> <<>>, handed |-> <<>>]
    /\ setup = SetupWaiting
    /\ saving = NotSaving

NextSave ==
    \/ \E project_id \in ProjectIds, credentials \in SavedCredentials :
          CallSaveDbCredentials(project_id, credentials)
    \/ SaveLookup
    \/ SaveCheckDir
    \/ SaveCreateDir
    \/ SaveCheckFile
    \/ SaveRead
    \/ SaveWrite
    \/ SaveDone
    \/ CallResolve

SpecSave == InitSave /\ [][NextSave]_vars

(***************************************************************************)
(* Properties of save_db_credentials.                                      *)
(***************************************************************************)
\* the members of a file's text, if it is a JSON object
MembersOf(file) ==
    IF file.exists /\ from_str(file.doc).ok /\ from_str(file.doc).v.type = "object"
    THEN from_str(file.doc).v.members
    ELSE <<>>

SaveReturned == saving.pc = "done" /\ saving.out # "panicked"

FileNow == disk[saving.project_id].json

\* every member but `database` is in the file as it was before the call
OthersKept(before, after) ==
    /\ DOMAIN MembersOf(after) \ {"database"} = DOMAIN MembersOf(before) \ {"database"}
    /\ \A k \in DOMAIN MembersOf(before) \ {"database"} : MembersOf(after)[k] = MembersOf(before)[k]

\* C28: save_db_credentials changes only the top-level `database` key of
\* project.json: whatever the file held before, every other top-level key has
\* its value after a save that succeeded, and after a call that returned an
\* error the file is as it was before the call.
C28_OnlyDatabaseKey ==
    SaveReturned =>
        IF saving.out = "Ok"
        THEN /\ from_str(FileNow.doc).ok
             /\ get(from_str(FileNow.doc).v, "database") = Some(db_config_of(saving.credentials))
             /\ OthersKept(saving.before, FileNow)
        ELSE FileNow = saving.before

\* a save into the file of every kind of member went through and kept them
C28_Witness ==
    /\ SaveReturned /\ saving.out = "Ok"
    /\ saving.before = File(to_string_pretty(P_full))
    /\ saving.credentials = C_escaped
    /\ DOMAIN MembersOf(FileNow) = {"project_type", "theme", "window", "editor", "database"}
    /\ FileNow # saving.before

\* the call returned an error and the file it found is gone
C28_Truncated ==
    /\ SaveReturned /\ saving.out = "WriteFailed"
    /\ saving.before = File(to_string_pretty(P_full))
    /\ FileNow = File(NotJson)

\* a resolution of the project's credentials that came after a successful save
\* for it, in a location whose .env yields no credentials
ResolvedAfterSave ==
    /\ res.op = "connect_database"
    /\ res.saved.pc = "done" /\ res.saved.out = "Ok"
    /\ res.project_id = res.saved.project_id
    /\ ~env_found(res.req.env)

\* C29: after save_db_credentials(P, c) succeeded for a project whose .env
\* yields no credentials, the next resolution of P's credentials yields c's
\* host, port, database, username and password, and does not report that the
\* credentials were not found.
C29_RoundTrip ==
    ResolvedAfterSave =>
        /\ res.out.ok
        /\ res.out.pool.host = res.saved.credentials.host
        /\ res.out.pool.port = res.saved.credentials.port
        /\ res.out.pool.database = res.saved.credentials.database
        /\ res.out.pool.username = res.saved.credentials.username
        /\ res.out.pool.password = res.saved.credentials.password

\* credentials with a quote and a backslash in the password came back as saved
C29_Witness ==
    /\ ResolvedAfterSave
    /\ res.saved.credentials = C_escaped
    /\ res.out.ok /\ res.out.pool.source = "project_json"
    /\ res.out.pool.password = <<Backslash, "p", DoubleQuote>>

(***************************************************************************)
(* Creating projects: create_project and delete_project of                 *)
(* project_commands.rs, the channel of lib.rs and the background thread    *)
(* that runs setup_project for every id it receives.                       *)
(***************************************************************************)
\* the locations a project is created at: a Laravel project, a directory without
\* composer.json, a directory that cannot be written, a broken composer.json
CreateLocations ==
    { Location(TRUE, "laravel"), Location(TRUE, "absent"), Location(FALSE, "absent"),
      Location(TRUE, "invalid") }

\* Sender::send on the unbounded channel of lib.rs 15
send(ch, id) == [ch EXCEPT !.queue = Append(@, id), !.sent = Append(@, id)]

\* project_commands.rs 61-83: a new id, the row, then the id on the channel; no
\* event when the insert failed
create_project(location, inserted) ==
    /\ projects.next <= MaxProjects
    /\ IF inserted
       THEN /\ projects' = [rows |-> projects.rows \cup {projects.next}, next |-> projects.next + 1]
            /\ disk' = [disk EXCEPT ![projects.next] = location]
            /\ channel' = send(channel, projects.next)
       ELSE /\ projects' = [projects EXCEPT !.next = @ + 1]
            /\ UNCHANGED <<disk, channel>>
    /\ UNCHANGED <<setup, saving>>
    /\ UNCHANGED <<profile, table, res>>
    /\ UNCHANGED cache_vars

\* project_commands.rs 133-137
delete_project(id) ==
    /\ id \in projects.rows
    /\ projects' = [projects EXCEPT !.rows = @ \ {id}]
    /\ UNCHANGED <<disk, channel, setup, saving>>
    /\ UNCHANGED <<profile, table, res>>
    /\ UNCHANGED cache_vars

\* lib.rs 31-34: `let _ = setup_project(..)` inside `for project_id in rx`: the
\* thread takes the next id whatever the result
after_setup_stopping(result) == IF result = "Ok" THEN "recv" ELSE "stopped"
after_setup(result) == "recv"

SetupGoes(pc) == setup' = [setup EXCEPT !.pc = pc]

SetupReturns(result) ==
    setup' = [ pc |-> after_setup(result), id |-> 0, project_type |-> <<>>,
               failed |-> IF result = "Ok" THEN setup.failed ELSE setup.failed \cup {setup.id},
               succeeded |-> IF result = "Ok" THEN setup.succeeded \cup {setup.id}
                             ELSE setup.succeeded ]

\* lib.rs 31: the iterator of the receiver hands over the oldest id
SetupRecv ==
    /\ setup.pc = "recv" /\ channel.queue # <<>>
    /\ setup' = [setup EXCEPT !.pc = "lookup", !.id = Head(channel.queue)]
    /\ channel' = [channel EXCEPT !.queue = Tail(@), !.handed = Append(@, Head(channel.queue))]
    /\ UNCHANGED <<projects, disk, saving>>
    /\ UNCHANGED <<profile, table, res>>
    /\ UNCHANGED cache_vars

\* project_commands.rs 244-251: db.get_project_by_id
SetupLookup ==
    /\ setup.pc = "lookup"
    /\ IF setup.id \in projects.rows THEN SetupGoes("dir") ELSE SetupReturns("ProjectNotFound")
    /\ UNCHANGED <<projects, disk, channel, saving>>
    /\ UNCHANGED <<profile, table, res>>
    /\ UNCHANGED cache_vars

\* project_commands.rs 254-255: Path::new(&workshop_dir).exists()
SetupCheckDir ==
    /\ setup.pc = "dir"
    /\ IF disk[setup.id].workshop THEN SetupGoes("type") ELSE SetupGoes("create_dir")
    /\ UNCHANGED <<projects, disk, channel, saving>>
    /\ UNCHANGED <<profile, table, res>>
    /\ UNCHANGED cache_vars

\* project_commands.rs 256: fs::create_dir_all accepts a directory that is there
SetupCreateDirAll ==
    /\ setup.pc = "create_dir"
    /\ IF disk[setup.id].writable \/ disk[setup.id].workshop
       THEN /\ disk' = [disk EXCEPT ![setup.id].workshop = TRUE]
            /\ SetupGoes("type")
       ELSE /\ SetupReturns("CreateDirFailed")
            /\ UNCHANGED disk
    /\ UNCHANGED <<projects, channel, saving>>
    /\ UNCHANGED <<profile, table, res>>
    /\ UNCHANGED cache_vars

\* project_commands.rs 209-241
get_project_type(known, composer) ==
    IF ~known THEN [ok |-> FALSE, v |-> <<>>]
    ELSE IF composer = "invalid" THEN [ok |-> FALSE, v |-> <<>>]
    ELSE IF composer = "laravel" THEN [ok |-> TRUE, v |-> T_Laravel]
    ELSE [ok |-> TRUE, v |-> T_Unknown]

\* project_commands.rs 259
SetupGetProjectType ==
    /\ setup.pc = "type"
    /\ IF get_project_type(setup.id \in projects.rows, disk[setup.id].composer).ok
       THEN setup' = [setup EXCEPT !.pc = "exists",
                          !.project_type = get_project_type(TRUE, disk[setup.id].composer).v]
       ELSE SetupReturns("ProjectTypeFailed")
    /\ UNCHANGED <<projects, disk, channel, saving>>
    /\ UNCHANGED <<profile, table, res>>
    /\ UNCHANGED cache_vars

\* project_commands.rs 262-263: project.json is written only if it is not there
SetupCheckFile ==
    /\ setup.pc = "exists"
    /\ IF disk[setup.id].json.exists THEN SetupReturns("Ok") ELSE SetupGoes("write")
    /\ UNCHANGED <<projects, disk, channel, saving>>
    /\ UNCHANGED <<profile, table, res>>
    /\ UNCHANGED cache_vars

\* project_commands.rs 264
setup_content(project_type) == JObject(Member("project_type", JString(project_type)))

\* project_commands.rs 264-270
SetupWrite ==
    /\ setup.pc = "write"
    /\ \E outcome \in write_outcomes(disk[setup.id]) :
          /\ disk' = [disk EXCEPT ![setup.id].json =
                         fs_write(@, to_string_pretty(setup_content(setup.project_type)), outcome)]
          /\ SetupReturns(IF outcome = "written" THEN "Ok" ELSE "WriteFailed")
    /\ UNCHANGED <<projects, channel, saving>>
    /\ UNCHANGED <<profile, table, res>>
    /\ UNCHANGED cache_vars

\* the steps of the background thread
SetupThread ==
    \/ SetupRecv \/ SetupLookup \/ SetupCheckDir \/ SetupCreateDirAll
    \/ SetupGetProjectType \/ SetupCheckFile \/ SetupWrite

InitSetup ==
    /\ CacheAtStart
    /\ ProjectsAtStart
    /\ profile = "release"
    /\ table = <<>>
    /\ res = NoCall

\* a project in a Laravel directory and one in a directory that cannot be written
SetupLocations == {Location(TRUE, "laravel"), Location(FALSE, "absent")}

NextSetup ==
    \/ \E location \in SetupLocations : create_project(location, TRUE)
    \/ SetupRecv
    \/ SetupLookup
    \/ SetupCheckDir
    \/ SetupCreateDirAll
    \/ SetupGetProjectType
    \/ SetupCheckFile
    \/ SetupWrite
    \/ \E project_id \in ProjectIds : CallSaveDbCredentials(project_id, C_full)
    \/ SaveLookup
    \/ SaveCheckDir
    \/ SaveCreateDir
    \/ SaveCheckFile
    \/ SaveRead
    \/ SaveWrite
    \/ SaveDone

\* setup_project on the background thread while save_db_credentials is invoked
SpecSetup == InitSetup /\ [][NextSetup]_vars

NextEvents ==
    \/ \E location \in CreateLocations, inserted \in BOOLEAN : create_project(location, inserted)
    \/ \E id \in ProjectIds : delete_project(id)
    \/ SetupRecv
    \/ SetupLookup
    \/ SetupCheckDir
    \/ SetupCreateDirAll
    \/ SetupGetProjectType
    \/ SetupCheckFile
    \/ SetupWrite

\* projects created and deleted while the background thread works
SpecEvents == InitSetup /\ [][NextEvents]_vars

\* the background thread is an operating-system thread of its own (lib.rs 29):
\* it is scheduled whenever it has a step to take
FairEvents == SpecEvents /\ WF_vars(SetupThread)

(***************************************************************************)
(* Properties of project setup.                                            *)
(***************************************************************************)
\* setup_project and save_db_credentials have both returned Ok for the project
BothSucceeded ==
    /\ saving.pc = "done" /\ saving.out = "Ok"
    /\ saving.project_id \in setup.succeeded

\* C27: when setup_project, run by the background thread, and
\* save_db_credentials have both completed successfully for a project, in
\* whatever order their checks, reads and writes of project.json interleaved,
\* the file holds the project_type key of the one and the database key of the
\* other.
C27_BothKeys ==
    BothSucceeded => {"project_type", "database"} \subseteq DOMAIN MembersOf(FileNow)

\* both returned Ok, the save after the write of setup_project: both keys are there
C27_Witness ==
    /\ BothSucceeded
    /\ saving.current_config = setup_content(T_Laravel)
    /\ DOMAIN MembersOf(FileNow) = {"project_type", "database"}

IsPrefixOf(s, t) == Len(s) <= Len(t) /\ s = SubSeq(t, 1, Len(s))

Handed(id) == id \in Range(channel.handed)

Sent(id) == id \in Range(channel.sent)

\* C30: every id that a successful create_project sent on the channel is
\* eventually handed to setup_project by the background thread, once and in
\* the order of sending, also when setup_project failed for an id sent before.
C30_EveryIdHanded ==
    /\ [](IsPrefixOf(channel.handed, channel.sent))
    /\ \A id \in ProjectIds : Sent(id) ~> Handed(id)

\* setup_project failed for the first id and the second was handed over
C30_Witness ==
    /\ Len(channel.sent) >= 2
    /\ channel.sent[1] \in setup.failed
    /\ channel.handed = channel.sent
    /\ channel.queue = <<>>

====
